---- MODULE Spec2Model ----
(***************************************************************************)
(* Verification model of the metroid-prime-extractor decoding path:        *)
(*   - gx.rs   : DisplayList::parse, the GX display-list (topology) decoder *)
(*   - pak.rs  : Pak::data / ResourceTableEntry::data                       *)
(*   - cskr.rs : Cskr::read_from, the skin decoder                          *)
(* Every decoder is a state machine over the bytes it consumes.  A call     *)
(* ends in one of three outcomes: "ok" (Ok(..) returned), "err" (Err(..)    *)
(* returned through `?` or bail!) or "panic" (assert!, unimplemented!,      *)
(* slice index out of range: the thread unwinds, nothing is returned).      *)
(***************************************************************************)
EXTENDS Integers, Sequences, FiniteSets, TLC

(***************************************************************************)
(* Bounds of the model                                                      *)
(***************************************************************************)
\* most primitive runs in one display list
MaxRuns == 2
\* most vertex records in a display list of one run
MaxVertices == 5
\* most vertex records in a display list of several runs
MaxMultiVertices == 3
\* largest low byte drawn for a run's 16-bit vertex count
MaxCount == 5
\* largest low byte drawn for a 16-bit position index
MaxIndexLo == 1
\* byte lengths of the attribute tables handed to DisplayList::parse
PositionDataLen == 24
NormalDataLen == 12
UvFloatDataLen == 8
\* length of the per-vertex joint / weight tables of a skinned mesh
NumJoints == 2

(***************************************************************************)
(* Program constants                                                        *)
(***************************************************************************)
GX_TRIANGLES == 144
GX_TRIANGLE_STRIP == 152
GX_TRIANGLE_FAN == 160
PositionStride == 12
NormalFloatStride == 12
NormalShortStride == 6
UvFloatStride == 8
ComponentBytes == 4
ShortComponentBytes == 2

\* Option::None for the texcoord of a vertex record
None == -1
\* [0.0; N], Default::default()
Zero == 0

VARIABLES
  \* ---- gx.rs: DisplayList::parse ----
  vertex_attr_flags,  \* the material's attribute mask
  skinned,            \* TRUE: SkinnedVertexDescriptor, FALSE: StaticVertexDescriptor
  data,               \* bytes of self.data consumed so far (self.data minus the slice r)
  pc,                 \* position in parse / parse_batch
  primitive_type,     \* opcode & 0xf8 of the current run
  vertex_format,      \* opcode & 0x07 of the current run
  count,              \* the run's vertex count
  done,               \* loop counter of `for _ in 0..count`
  handler,            \* the VertexHandler of the current run
  batches,            \* Vec<Batch> built by parse
  result,             \* "none" while running, then "ok" | "err" | "panic"
  run,                \* history: the vertex records handed to handle_vertex in this run
  records,            \* history: the 16-bit words read for each vertex of this run
  runStart,           \* history: Len(data) right after the run's opcode
  runLog              \* history: the completed runs, in stream order

VARIABLES
  \* ---- pak.rs: Pak::data ----
  resource_table,     \* Pak::resource_table: entries [compression, file_id, data]
  originals,          \* history: the resources the container was built from
  pak_pc,             \* "ready" | "returned"
  file_id,            \* the id of the last Pak::data call
  pak_result          \* its outcome: [status, found, bytes]

VARIABLES
  \* ---- cskr.rs: Cskr::read_from ----
  cskr_pc,            \* position in read_from
  weight_count,       \* the total declared at the start of the resource
  total_weights,      \* the running sum of the loop
  vertex_groups,      \* Vec<VertexGroup> built by read_from
  cskr_result,        \* "none" while running, then "ok" | "err" | "panic"
  cskr_input          \* history: the vertex groups read from the resource

VARIABLES
  \* ---- mesh.rs: CanonicalMesh::from_ancs, the skin tables ----
  ancs_pc,
  skin,
  group_index,
  copies,
  vertex_bone_ids,
  vertex_weights,
  ancs_result

VARIABLES
  \* ---- cmdl.rs: Cmdl::read_from ----
  cmdl_pc,
  header_flags,
  section_count,
  material_set_count,
  sections,
  cmdl,
  surface_count,
  cmdl_result

VARIABLES
  \* ---- txtr.rs: dump ----
  txtr_pc,
  txtr_format,
  txtr_width,
  txtr_height,
  palette_format,
  txtr_seed,
  txtr_step,
  txtr_len,
  txtr_y,
  decoded,
  image_written,
  txtr_result

VARIABLES
  \* ---- txtr.rs: the pixel functions applied to one input ----
  pixel_pc,
  pixel_in,
  pixel_out

VARIABLES
  \* ---- main.rs: make_static_gltf_document / make_skinned_gltf_document, the surface loop ----
  canon_pc,
  document_kind,
  surface_number,
  surface_input,
  distinct_run,
  vertex_count,
  index_count,
  indices_by_vertex,
  index_buffer,
  attribute_buffer,
  surface_log,
  canon_result

VARIABLES
  \* ---- mesh.rs: interpret_bone, called by CanonicalMesh::from_ancs ----
  bone_pc,
  cinf_bones,
  build_order_ids,
  bone_names,
  call_stack,
  skeleton,
  bone_result

VARIABLES
  \* ---- main.rs: process_all_resources ----
  scan_pc,
  archive_count,
  archive_sizes,
  scan_log,
  scan_result

VARIABLES
  \* ---- bytes.rs: read_fixed_capacity_ascii_c_string applied to one input ----
  cstr_pc,
  cstr_input,
  cstr_capacity,
  cstr_cursor,
  cstr_result

VARIABLES
  \* ---- the leading magic, tag and version checks of the record decoders ----
  tag_pc,
  tag_decoder,
  tag_value,
  tag_result

VARIABLES
  \* ---- pak.rs: Pak::new ----
  new_pc,
  data_len,
  remaining,
  name_count,
  names_read,
  resource_count,
  new_table,
  new_result

VARIABLES
  \* ---- ancs.rs: Character::read_from ----
  char_pc,
  char_version,
  char_fields,
  character,
  char_result

VARIABLES
  \* ---- cmdl.rs: the byte layout Cmdl::read_from and Surface::read_from walk ----
  lay_pc,
  lay_build,
  lay_len,
  lay_pos,
  lay_count,
  lay_sections,
  lay_surface,
  lay_result

VARIABLES
  \* ---- disc.rs: Disc::iter_files and Disc::find_file ----
  disc_pc,
  root_entry_count,
  file_table,
  disc_caller,
  requested,
  disc_index,
  disc_path,
  dir_ends,
  yielded,
  found_file

gxVars == <<vertex_attr_flags, skinned, data, pc, primitive_type, vertex_format,
            count, done, handler, batches, result, run, records, runStart, runLog>>
pakVars == <<resource_table, originals, pak_pc, file_id, pak_result>>
cskrVars == <<cskr_pc, weight_count, total_weights, vertex_groups, cskr_result, cskr_input>>
ancsVars == <<ancs_pc, skin, group_index, copies, vertex_bone_ids, vertex_weights, ancs_result>>
cmdlVars == <<cmdl_pc, header_flags, section_count, material_set_count, sections, cmdl, surface_count, cmdl_result>>
txtrVars == <<txtr_pc, txtr_format, txtr_width, txtr_height, palette_format, txtr_seed, txtr_step, txtr_len, txtr_y, decoded, image_written, txtr_result>>
pixelVars == <<pixel_pc, pixel_in, pixel_out>>
canonVars == <<canon_pc, document_kind, surface_number, surface_input, distinct_run, vertex_count, index_count, indices_by_vertex, index_buffer, attribute_buffer, surface_log, canon_result>>
boneVars == <<bone_pc, cinf_bones, build_order_ids, bone_names, call_stack, skeleton, bone_result>>
scanVars == <<scan_pc, archive_count, archive_sizes, scan_log, scan_result>>
cStrVars == <<cstr_pc, cstr_input, cstr_capacity, cstr_cursor, cstr_result>>
tagVars == <<tag_pc, tag_decoder, tag_value, tag_result>>
pakNewVars == <<new_pc, data_len, remaining, name_count, names_read, resource_count, new_table, new_result>>
charVars == <<char_pc, char_version, char_fields, character, char_result>>
layoutVars == <<lay_pc, lay_build, lay_len, lay_pos, lay_count, lay_sections, lay_surface, lay_result>>
discVars == <<disc_pc, root_entry_count, file_table, disc_caller, requested, disc_index, disc_path, dir_ends, yielded, found_file>>

vars == <<gxVars, pakVars, cskrVars, ancsVars, cmdlVars, txtrVars, pixelVars, canonVars, boneVars, scanVars, cStrVars, tagVars, pakNewVars, charVars, layoutVars, discVars>>

\* the variables each decoder leaves alone
notGx == <<pakVars, cskrVars, ancsVars, cmdlVars, txtrVars, pixelVars, canonVars, boneVars, scanVars, cStrVars, tagVars, pakNewVars, charVars, layoutVars, discVars>>
notPak == <<gxVars, cskrVars, ancsVars, cmdlVars, txtrVars, pixelVars, canonVars, boneVars, scanVars, cStrVars, tagVars, pakNewVars, charVars, layoutVars, discVars>>
notCskr == <<gxVars, pakVars, ancsVars, cmdlVars, txtrVars, pixelVars, canonVars, boneVars, scanVars, cStrVars, tagVars, pakNewVars, charVars, layoutVars, discVars>>
notAncs == <<gxVars, pakVars, cskrVars, cmdlVars, txtrVars, pixelVars, canonVars, boneVars, scanVars, cStrVars, tagVars, pakNewVars, charVars, layoutVars, discVars>>
notCmdl == <<gxVars, pakVars, cskrVars, ancsVars, txtrVars, pixelVars, canonVars, boneVars, scanVars, cStrVars, tagVars, pakNewVars, charVars, layoutVars, discVars>>
notTxtr == <<gxVars, pakVars, cskrVars, ancsVars, cmdlVars, pixelVars, canonVars, boneVars, scanVars, cStrVars, tagVars, pakNewVars, charVars, layoutVars, discVars>>
notPixel == <<gxVars, pakVars, cskrVars, ancsVars, cmdlVars, txtrVars, canonVars, boneVars, scanVars, cStrVars, tagVars, pakNewVars, charVars, layoutVars, discVars>>
notCanon == <<gxVars, pakVars, cskrVars, ancsVars, cmdlVars, txtrVars, pixelVars, boneVars, scanVars, cStrVars, tagVars, pakNewVars, charVars, layoutVars, discVars>>
notBone == <<gxVars, pakVars, cskrVars, ancsVars, cmdlVars, txtrVars, pixelVars, canonVars, scanVars, cStrVars, tagVars, pakNewVars, charVars, layoutVars, discVars>>
notScan == <<gxVars, pakVars, cskrVars, ancsVars, cmdlVars, txtrVars, pixelVars, canonVars, boneVars, cStrVars, tagVars, pakNewVars, charVars, layoutVars, discVars>>
notCStr == <<gxVars, pakVars, cskrVars, ancsVars, cmdlVars, txtrVars, pixelVars, canonVars, boneVars, scanVars, tagVars, pakNewVars, charVars, layoutVars, discVars>>
notTag == <<gxVars, pakVars, cskrVars, ancsVars, cmdlVars, txtrVars, pixelVars, canonVars, boneVars, scanVars, cStrVars, pakNewVars, charVars, layoutVars, discVars>>
notPakNew == <<gxVars, pakVars, cskrVars, ancsVars, cmdlVars, txtrVars, pixelVars, canonVars, boneVars, scanVars, cStrVars, tagVars, charVars, layoutVars, discVars>>
notChar == <<gxVars, pakVars, cskrVars, ancsVars, cmdlVars, txtrVars, pixelVars, canonVars, boneVars, scanVars, cStrVars, tagVars, pakNewVars, layoutVars, discVars>>
notLayout == <<gxVars, pakVars, cskrVars, ancsVars, cmdlVars, txtrVars, pixelVars, canonVars, boneVars, scanVars, cStrVars, tagVars, pakNewVars, charVars, discVars>>
notDisc == <<gxVars, pakVars, cskrVars, ancsVars, cmdlVars, txtrVars, pixelVars, canonVars, boneVars, scanVars, cStrVars, tagVars, pakNewVars, charVars, layoutVars>>

(***************************************************************************)
(* Helpers                                                                  *)
(***************************************************************************)
\* (flags & (3 << shift)) != 0, with low = 1 << shift
FieldPresent(flags, low) == (flags \div low) % 4 # 0

\* opcode & 0xf8 and opcode & 0x07
PrimitiveTypeOf(opcode) == opcode - (opcode % 8)
VertexFormatOf(opcode) == opcode % 8

\* u16 from two big-endian bytes (byteorder::ReadBytesExt::read_u16::<BigEndian>)
U16(hi, lo) == hi * 256 + lo

\* One attribute-table lookup `let mut data = &table[index * stride..]` followed by
\* `n` component reads of `width` bytes: "panic" when the slice start is past the
\* end of the table, "err" when a component read runs out of bytes, else "ok".
TableLookup(len, index, stride, n, width) ==
  IF index * stride > len THEN "panic"
  ELSE IF index * stride + n * width > len THEN "err"
  ELSE "ok"

\* Attribute values are abstract: a distinct number for every table slot.
PositionAt(index) == 100 + index
NormalFloatAt(index) == 200 + index
NormalShortAt(index) == 300 + index
UvFloatAt(index) == 400 + index
\* BoneId::get / Weight::get: () for a static mesh, data[index] for a skinned one
BoneIdAt(index) == IF skinned THEN 10 + index ELSE Zero
WeightAt(index) == IF skinned THEN 20 + index ELSE Zero

EmptyVertex == [position |-> Zero, normal |-> Zero, texcoord |-> Zero,
                bone_id |-> Zero, weight |-> Zero]

\* Triangles::new / TriangleStrip::new / TriangleFan::new
NewHandler ==
  [positions |-> <<>>, normals |-> <<>>, texcoords |-> <<>>,
   bone_ids |-> <<>>, weights |-> <<>>,
   a |-> EmptyVertex, b |-> EmptyVertex, state |-> 0]

\* "self.x_a = x; if let Some(texcoord) = texcoord { self.texcoord_a = texcoord }"
Store(buf, v) ==
  [position |-> v.position, normal |-> v.normal,
   texcoord |-> IF v.texcoord = None THEN buf.texcoord ELSE v.texcoord,
   bone_id |-> v.bone_id, weight |-> v.weight]

\* the fifteen pushes of one emitted triangle (x, y, v)
Push(h, x, y, v) ==
  [h EXCEPT
     !.positions = @ \o <<x.position, y.position, v.position>>,
     !.normals = @ \o <<x.normal, y.normal, v.normal>>,
     !.texcoords = IF v.texcoord = None THEN @
                   ELSE @ \o <<x.texcoord, y.texcoord, v.texcoord>>,
     !.bone_ids = @ \o <<x.bone_id, y.bone_id, v.bone_id>>,
     !.weights = @ \o <<x.weight, y.weight, v.weight>>]

\* Triangles::handle_vertex
TrianglesHandleVertex(h, v) ==
  CASE h.state = 0 -> [h EXCEPT !.a = Store(h.a, v), !.state = 1]
    [] h.state = 1 -> [h EXCEPT !.b = Store(h.b, v), !.state = 2]
    [] h.state = 2 -> [Push(h, h.a, h.b, v) EXCEPT !.state = 0]

\* TriangleStrip::shift
StripShift(h, v) == [h EXCEPT !.a = h.b, !.b = Store(h.b, v)]


\* (fault) a strip decoder that emits every triangle as (A, B, C), never swapped
StripNeverSwapped(h, v) ==
  CASE h.state = 0 -> [h EXCEPT !.a = Store(h.a, v), !.state = 1]
    [] h.state = 1 -> [h EXCEPT !.b = Store(h.b, v), !.state = 2]
    [] h.state = 2 -> [StripShift(Push(h, h.a, h.b, v), v) EXCEPT !.state = 3]
    [] h.state = 3 -> [StripShift(Push(h, h.a, h.b, v), v) EXCEPT !.state = 2]

\* TriangleStrip::handle_vertex
TriangleStripHandleVertex(h, v) ==
  CASE h.state = 0 -> [h EXCEPT !.a = Store(h.a, v), !.state = 1]
    [] h.state = 1 -> [h EXCEPT !.b = Store(h.b, v), !.state = 2]
    [] h.state = 2 -> [StripShift(Push(h, h.a, h.b, v), v) EXCEPT !.state = 3]
    [] h.state = 3 -> [StripShift(Push(h, h.b, h.a, v), v) EXCEPT !.state = 2]

\* TriangleFan::shift
FanShift(h, v) == [h EXCEPT !.b = Store(h.b, v)]

\* (fault) a fan decoder whose pivot moves along with the run
FanMovingPivot(h, v) ==
  CASE h.state = 0 -> [h EXCEPT !.a = Store(h.a, v), !.state = 1]
    [] h.state = 1 -> [FanShift(h, v) EXCEPT !.state = 2]
    [] h.state = 2 -> StripShift(Push(h, h.a, h.b, v), v)

\* TriangleFan::handle_vertex
TriangleFanHandleVertex(h, v) ==
  CASE h.state = 0 -> [h EXCEPT !.a = Store(h.a, v), !.state = 1]
    [] h.state = 1 -> [FanShift(h, v) EXCEPT !.state = 2]
    [] h.state = 2 -> FanShift(Push(h, h.a, h.b, v), v)

\* vertex_handler.handle_vertex(..), dispatched on the handler type chosen by parse
HandleVertex(kind, h, v) ==
  CASE kind = GX_TRIANGLES -> TrianglesHandleVertex(h, v)
    [] kind = GX_TRIANGLE_STRIP -> TriangleStripHandleVertex(h, v)
    [] kind = GX_TRIANGLE_FAN -> TriangleFanHandleVertex(h, v)

\* (fault) Triangles::finish without its assertion
FinishNeverPanics(kind, h) == FALSE

\* the assertion of Triangles::finish; the other two handlers have none
FinishPanics(kind, h) == kind = GX_TRIANGLES /\ h.state # 0

\* VertexHandler::finish
Finish(h) ==
  [positions |-> h.positions, normals |-> h.normals, texcoords |-> h.texcoords,
   bone_ids |-> h.bone_ids, weights |-> h.weights]


(***************************************************************************)
(* DisplayList::parse_batch: one vertex record                              *)
(***************************************************************************)
\* the attribute masks explored (material.vertex_attr_flags)
FlagSet ==
  { 13,        \* 0x00000d  position (one bit of the field), normal
    783,       \* 0x00030f  position, normal, uv0
    16143,     \* 0x003f0f  position, normal, uv0, uv1, uv2
    12,        \* 0x00000c  normal only
    3,         \* 0x000003  position only
    63,        \* 0x00003f  position, normal, color0
    207,       \* 0x0000cf  position, normal, color1
    49935,     \* 0x00c30f  position, normal, uv0, uv3
    1049359,   \* 0x10030f  position, normal, uv0, uv6
    4194319 }  \* 0x40000f  position, normal and bit 22 (outside every tested field)

\* the masks also decoded with SkinnedVertexDescriptor (CanonicalMesh::from_ancs)
SkinnedFlagSet == { 783 }

\* the bytes drawn at an opcode position
OpcodeBytes ==
  { 0,      \* terminator
    144,    \* 0x90 triangles, format 0
    152,    \* 0x98 triangle strip, format 0
    160,    \* 0xa0 triangle fan, format 0
    153,    \* 0x99 triangle strip, format 1
    146,    \* 0x92 triangles, format 2
    163,    \* 0xa3 triangle fan, format 3
    128 }   \* 0x80 no known primitive type

\* the bytes drawn at an opcode position once a run has been read: the terminator,
\* a triangle list, a strip, and an unknown type
LaterOpcodeBytes == {0, 144, 152, 128}

\* the bytes drawn for a vertex count and for an attribute index
IndexWords == { <<0, lo>> : lo \in 0..MaxIndexLo } \cup { <<1, 0>> }
\* the bytes drawn for a normal index: the first slot, the index at twice the
\* short stride, and an index far past both tables
NormalIndexWords == { <<0, 0>>, <<0, 2>> }
\* the bytes drawn for a uv0 index: the first slot and the slot after the table
UvIndexWords == { <<0, 0>>, <<0, 1>> }
\* the bytes drawn for an index that is read and dropped (uv1, uv2)
UnusedIndexWords == { <<0, 1>> }

\* RECURSIVE sum of the vertex counts of the completed runs
RECURSIVE LoggedVertices(_)
LoggedVertices(log) ==
  IF log = <<>> THEN 0 ELSE Len(log[1].vertices) + LoggedVertices(Tail(log))

\* the stream still holds bytes for another vertex record / another run
MoreVertices ==
  \/ runLog = <<>> /\ Len(run) < MaxVertices
  \/ LoggedVertices(runLog) + Len(run) < MaxMultiVertices
MoreRuns ==
  /\ Len(runLog) < MaxRuns
  /\ LoggedVertices(runLog) <= MaxMultiVertices

\* the vertex records the stream can still hold
VertexBudget ==
  IF runLog = <<>> THEN MaxVertices ELSE MaxMultiVertices - LoggedVertices(runLog)

\* the bytes drawn for a vertex count: every count the stream can hold, up to
\* MaxCount, and one count (256) larger than any stream explored
CountWords ==
  { <<0, lo>> : lo \in { c \in 0..MaxCount : c <= VertexBudget } } \cup { <<1, 0>> }

\* a vertex record being read: the outcome so far, the bytes and words consumed
\* by it and the attributes decoded
StartRecord ==
  [status |-> "cont", bytes |-> <<>>, words |-> <<>>,
   v |-> [position |-> Zero, normal |-> Zero, texcoord |-> None,
          bone_id |-> Zero, weight |-> Zero]]

\* run stage F on every record that is still being read
Bind(S, F(_)) == UNION { IF p.status = "cont" THEN F(p) ELSE {p} : p \in S }

Fail(p, how) == [p EXCEPT !.status = how]

\* r.read_u16()?: the stream has ended (Err), or two more bytes, drawn from
\* `words`, are consumed
ReadU16(p, words) ==
  {Fail(p, "err")} \cup
  { [p EXCEPT !.bytes = @ \o <<w[1], w[2]>>, !.words = @ \o <<U16(w[1], w[2])>>] :
      w \in { hl \in words : p.words # <<>> \/ MoreVertices } }

ReadIndex(p) == ReadU16(p, IndexWords)

LastWord(p) == p.words[Len(p.words)]

\* gx.rs:142-153
PositionStage(p) ==
  IF ~FieldPresent(vertex_attr_flags, 1) THEN {Fail(p, "panic")}
  ELSE { IF q.status # "cont" THEN q
         ELSE LET index == LastWord(q)
                  st == TableLookup(PositionDataLen, index, PositionStride, 3, ComponentBytes)
              IN IF st # "ok" THEN Fail(q, st)
                 ELSE IF skinned /\ index >= NumJoints THEN Fail(q, "panic")
                 ELSE [q EXCEPT !.v.position = PositionAt(index),
                                !.v.bone_id = BoneIdAt(index),
                                !.v.weight = WeightAt(index)]
         : q \in ReadIndex(p) }

\* gx.rs:154-175
NormalStage(p) ==
  IF ~FieldPresent(vertex_attr_flags, 4) THEN {Fail(p, "panic")}
  ELSE { IF q.status # "cont" THEN q
         ELSE LET index == LastWord(q)
                  st == IF vertex_format = 0
                        THEN TableLookup(NormalDataLen, index, NormalFloatStride, 3, ComponentBytes)
                        ELSE TableLookup(NormalDataLen, index, NormalShortStride, 3, ShortComponentBytes)
              IN IF st # "ok" THEN Fail(q, st)
                 ELSE [q EXCEPT !.v.normal = IF vertex_format = 0 THEN NormalFloatAt(index)
                                             ELSE NormalShortAt(index)]
         : q \in ReadU16(p, NormalIndexWords) }

\* gx.rs:176-183
ColorStage(p) ==
  IF FieldPresent(vertex_attr_flags, 16) \/ FieldPresent(vertex_attr_flags, 64)
  THEN {Fail(p, "panic")} ELSE {p}

\* gx.rs:184-199
Tex0Stage(p) ==
  IF ~FieldPresent(vertex_attr_flags, 256) THEN {p}
  ELSE IF vertex_format = 2 THEN {Fail(p, "panic")}
  ELSE { IF q.status # "cont" THEN q
         ELSE LET index == LastWord(q)
                  st == TableLookup(UvFloatDataLen, index, UvFloatStride, 2, ComponentBytes)
              IN IF st # "ok" THEN Fail(q, st)
                 ELSE [q EXCEPT !.v.texcoord = UvFloatAt(index)]
         : q \in ReadU16(p, UvIndexWords) }

\* (fault) uv1 present in the mask but its index left unread
Tex1StageUnread(p) == {p}

\* gx.rs:200-204
Tex1Stage(p) ==
  IF FieldPresent(vertex_attr_flags, 1024) THEN ReadU16(p, UnusedIndexWords) ELSE {p}

\* gx.rs:205-209
Tex2Stage(p) ==
  IF FieldPresent(vertex_attr_flags, 4096) THEN ReadU16(p, UnusedIndexWords) ELSE {p}

\* gx.rs:210-225
Tex3To6Stage(p) ==
  IF \/ FieldPresent(vertex_attr_flags, 16384)
     \/ FieldPresent(vertex_attr_flags, 65536)
     \/ FieldPresent(vertex_attr_flags, 262144)
     \/ FieldPresent(vertex_attr_flags, 1048576)
  THEN {Fail(p, "panic")} ELSE {p}

\* every way one iteration of `for _ in 0..count` can read its vertex record
VertexRecords ==
  Bind(Bind(Bind(Bind(Bind(Bind(PositionStage(StartRecord),
    NormalStage), ColorStage), Tex0Stage), Tex1Stage), Tex2Stage), Tex3To6Stage)

(***************************************************************************)
(* The decoders that take no part in a specification stay idle              *)
(***************************************************************************)
GxIdle ==
  /\ vertex_attr_flags = 0
  /\ skinned = FALSE
  /\ data = <<>>
  /\ pc = "idle"
  /\ primitive_type = 0
  /\ vertex_format = 0
  /\ count = 0
  /\ done = 0
  /\ handler = NewHandler
  /\ batches = <<>>
  /\ result = "none"
  /\ run = <<>>
  /\ records = <<>>
  /\ runStart = 0
  /\ runLog = <<>>

PakIdle ==
  /\ resource_table = <<>>
  /\ originals = <<>>
  /\ pak_pc = "idle"
  /\ file_id = 0
  /\ pak_result = [status |-> "none", found |-> FALSE, bytes |-> <<>>]

CskrIdle ==
  /\ cskr_pc = "idle"
  /\ weight_count = None
  /\ total_weights = 0
  /\ vertex_groups = <<>>
  /\ cskr_result = "none"
  /\ cskr_input = <<>>

AncsIdle ==
  /\ ancs_pc = "idle"
  /\ skin = <<>>
  /\ group_index = 0
  /\ copies = 0
  /\ vertex_bone_ids = <<>>
  /\ vertex_weights = <<>>
  /\ ancs_result = "none"

\* the Cmdl under construction: which section each field was taken from
NoCmdl ==
  [materials |-> <<>>, position_data |-> None, normal_data |-> None, color_data |-> None,
   uv_float_data |-> None, uv_short_data |-> None, surface_offsets |-> None,
   surfaces |-> <<>>]

CmdlIdle ==
  /\ cmdl_pc = "idle"
  /\ header_flags = 0
  /\ section_count = 0
  /\ material_set_count = 0
  /\ sections = <<>>
  /\ cmdl = NoCmdl
  /\ surface_count = 0
  /\ cmdl_result = "none"

TxtrIdle ==
  /\ txtr_pc = "idle"
  /\ txtr_format = 0
  /\ txtr_width = 0
  /\ txtr_height = 0
  /\ palette_format = 0
  /\ txtr_seed = 0
  /\ txtr_step = 0
  /\ txtr_len = 0
  /\ txtr_y = 0
  /\ decoded = <<>>
  /\ image_written = FALSE
  /\ txtr_result = "none"

PixelIdle ==
  /\ pixel_pc = "idle"
  /\ pixel_in = <<>>
  /\ pixel_out = <<>>

CanonIdle ==
  /\ canon_pc = "idle"
  /\ document_kind = "none"
  /\ surface_number = 0
  /\ surface_input = <<>>
  /\ distinct_run = 0
  /\ vertex_count = 0
  /\ index_count = 0
  /\ indices_by_vertex = {}
  /\ index_buffer = <<>>
  /\ attribute_buffer = <<>>
  /\ surface_log = <<>>
  /\ canon_result = "none"

BoneIdle ==
  /\ bone_pc = "idle"
  /\ cinf_bones = <<>>
  /\ build_order_ids = <<>>
  /\ bone_names = {}
  /\ call_stack = <<>>
  /\ skeleton = <<>>
  /\ bone_result = "none"

ScanIdle ==
  /\ scan_pc = "idle"
  /\ archive_count = 0
  /\ archive_sizes = <<>>
  /\ scan_log = <<>>
  /\ scan_result = "none"

CStrIdle ==
  /\ cstr_pc = "idle"
  /\ cstr_input = <<>>
  /\ cstr_capacity = 0
  /\ cstr_cursor = 0
  /\ cstr_result = <<>>

TagIdle ==
  /\ tag_pc = "idle"
  /\ tag_decoder = "none"
  /\ tag_value = <<>>
  /\ tag_result = "none"

PakNewIdle ==
  /\ new_pc = "idle"
  /\ data_len = 0
  /\ remaining = 0
  /\ name_count = 0
  /\ names_read = 0
  /\ resource_count = 0
  /\ new_table = <<>>
  /\ new_result = "none"

CharIdle ==
  /\ char_pc = "idle"
  /\ char_version = 0
  /\ char_fields = <<>>
  /\ character = <<>>
  /\ char_result = "none"

LayoutIdle ==
  /\ lay_pc = "idle"
  /\ lay_build = "none"
  /\ lay_len = 0
  /\ lay_pos = 0
  /\ lay_count = 0
  /\ lay_sections = <<>>
  /\ lay_surface = <<>>
  /\ lay_result = "none"

DiscIdle ==
  /\ disc_pc = "idle"
  /\ root_entry_count = 0
  /\ file_table = <<>>
  /\ disc_caller = "none"
  /\ requested = <<>>
  /\ disc_index = 0
  /\ disc_path = <<>>
  /\ dir_ends = <<>>
  /\ yielded = <<>>
  /\ found_file = -1

\* every decoder but one idle
IdleButGx == PakIdle /\ CskrIdle /\ AncsIdle /\ CmdlIdle /\ TxtrIdle /\ PixelIdle /\ CanonIdle /\ BoneIdle /\ ScanIdle /\ CStrIdle /\ TagIdle /\ PakNewIdle /\ CharIdle /\ LayoutIdle /\ DiscIdle
IdleButPak == GxIdle /\ CskrIdle /\ AncsIdle /\ CmdlIdle /\ TxtrIdle /\ PixelIdle /\ CanonIdle /\ BoneIdle /\ ScanIdle /\ CStrIdle /\ TagIdle /\ PakNewIdle /\ CharIdle /\ LayoutIdle /\ DiscIdle
IdleButCskr == GxIdle /\ PakIdle /\ AncsIdle /\ CmdlIdle /\ TxtrIdle /\ PixelIdle /\ CanonIdle /\ BoneIdle /\ ScanIdle /\ CStrIdle /\ TagIdle /\ PakNewIdle /\ CharIdle /\ LayoutIdle /\ DiscIdle
IdleButAncs == GxIdle /\ PakIdle /\ CskrIdle /\ CmdlIdle /\ TxtrIdle /\ PixelIdle /\ CanonIdle /\ BoneIdle /\ ScanIdle /\ CStrIdle /\ TagIdle /\ PakNewIdle /\ CharIdle /\ LayoutIdle /\ DiscIdle
IdleButCmdl == GxIdle /\ PakIdle /\ CskrIdle /\ AncsIdle /\ TxtrIdle /\ PixelIdle /\ CanonIdle /\ BoneIdle /\ ScanIdle /\ CStrIdle /\ TagIdle /\ PakNewIdle /\ CharIdle /\ LayoutIdle /\ DiscIdle
IdleButTxtr == GxIdle /\ PakIdle /\ CskrIdle /\ AncsIdle /\ CmdlIdle /\ PixelIdle /\ CanonIdle /\ BoneIdle /\ ScanIdle /\ CStrIdle /\ TagIdle /\ PakNewIdle /\ CharIdle /\ LayoutIdle /\ DiscIdle
IdleButPixel == GxIdle /\ PakIdle /\ CskrIdle /\ AncsIdle /\ CmdlIdle /\ TxtrIdle /\ CanonIdle /\ BoneIdle /\ ScanIdle /\ CStrIdle /\ TagIdle /\ PakNewIdle /\ CharIdle /\ LayoutIdle /\ DiscIdle
IdleButCanon == GxIdle /\ PakIdle /\ CskrIdle /\ AncsIdle /\ CmdlIdle /\ TxtrIdle /\ PixelIdle /\ BoneIdle /\ ScanIdle /\ CStrIdle /\ TagIdle /\ PakNewIdle /\ CharIdle /\ LayoutIdle /\ DiscIdle
IdleButBone == GxIdle /\ PakIdle /\ CskrIdle /\ AncsIdle /\ CmdlIdle /\ TxtrIdle /\ PixelIdle /\ CanonIdle /\ ScanIdle /\ CStrIdle /\ TagIdle /\ PakNewIdle /\ CharIdle /\ LayoutIdle /\ DiscIdle
IdleButScan == GxIdle /\ PakIdle /\ CskrIdle /\ AncsIdle /\ CmdlIdle /\ TxtrIdle /\ PixelIdle /\ CanonIdle /\ BoneIdle /\ CStrIdle /\ TagIdle /\ PakNewIdle /\ CharIdle /\ LayoutIdle /\ DiscIdle
IdleButCStr == GxIdle /\ PakIdle /\ CskrIdle /\ AncsIdle /\ CmdlIdle /\ TxtrIdle /\ PixelIdle /\ CanonIdle /\ BoneIdle /\ ScanIdle /\ TagIdle /\ PakNewIdle /\ CharIdle /\ LayoutIdle /\ DiscIdle
IdleButTag == GxIdle /\ PakIdle /\ CskrIdle /\ AncsIdle /\ CmdlIdle /\ TxtrIdle /\ PixelIdle /\ CanonIdle /\ BoneIdle /\ ScanIdle /\ CStrIdle /\ PakNewIdle /\ CharIdle /\ LayoutIdle /\ DiscIdle
IdleButPakNew == GxIdle /\ PakIdle /\ CskrIdle /\ AncsIdle /\ CmdlIdle /\ TxtrIdle /\ PixelIdle /\ CanonIdle /\ BoneIdle /\ ScanIdle /\ CStrIdle /\ TagIdle /\ CharIdle /\ LayoutIdle /\ DiscIdle
IdleButChar == GxIdle /\ PakIdle /\ CskrIdle /\ AncsIdle /\ CmdlIdle /\ TxtrIdle /\ PixelIdle /\ CanonIdle /\ BoneIdle /\ ScanIdle /\ CStrIdle /\ TagIdle /\ PakNewIdle /\ LayoutIdle /\ DiscIdle
IdleButLayout == GxIdle /\ PakIdle /\ CskrIdle /\ AncsIdle /\ CmdlIdle /\ TxtrIdle /\ PixelIdle /\ CanonIdle /\ BoneIdle /\ ScanIdle /\ CStrIdle /\ TagIdle /\ PakNewIdle /\ CharIdle /\ DiscIdle
IdleButDisc == GxIdle /\ PakIdle /\ CskrIdle /\ AncsIdle /\ CmdlIdle /\ TxtrIdle /\ PixelIdle /\ CanonIdle /\ BoneIdle /\ ScanIdle /\ CStrIdle /\ TagIdle /\ PakNewIdle /\ CharIdle /\ LayoutIdle

(***************************************************************************)
(* DisplayList::parse as a state machine                                    *)
(***************************************************************************)
GxInit ==
  /\ IdleButGx
  /\ vertex_attr_flags \in FlagSet
  /\ skinned \in (IF vertex_attr_flags \in SkinnedFlagSet THEN BOOLEAN ELSE {FALSE})
  /\ data = <<>>
  /\ pc = "opcode"
  /\ primitive_type = 0
  /\ vertex_format = 0
  /\ count = 0
  /\ done = 0
  /\ handler = NewHandler
  /\ batches = <<>>
  /\ result = "none"
  /\ run = <<>>
  /\ records = <<>>
  /\ runStart = 0
  /\ runLog = <<>>

\* (fault) the end of the stream taken as its terminator
EndOfStreamReturnsBatches == "ok"

\* `let opcode = r.read_u8()?` with no byte left
EndOfStreamOutcome == "err"

\* parse returns or unwinds
Return(how) ==
  /\ result' = how
  /\ pc' = "done"

\* gx.rs:74-116: one turn of the opcode loop, up to the call of parse_batch
ReadOpcode ==
  /\ pc = "opcode"
  /\ \/ /\ Return(EndOfStreamOutcome)
        /\ UNCHANGED <<data, primitive_type, vertex_format, handler, run, records, runStart>>
     \/ \E opcode \in (IF runLog = <<>> THEN OpcodeBytes ELSE LaterOpcodeBytes) :
          /\ opcode = 0 \/ MoreRuns
          /\ data' = Append(data, opcode)
          /\ IF opcode = 0
             THEN /\ Return("ok")
                  /\ UNCHANGED <<primitive_type, vertex_format, handler, run, records, runStart>>
             ELSE IF PrimitiveTypeOf(opcode) \in {GX_TRIANGLES, GX_TRIANGLE_STRIP, GX_TRIANGLE_FAN}
             THEN /\ primitive_type' = PrimitiveTypeOf(opcode)
                  /\ vertex_format' = VertexFormatOf(opcode)
                  /\ handler' = NewHandler
                  /\ run' = <<>>
                  /\ records' = <<>>
                  /\ runStart' = Len(data) + 1
                  /\ pc' = "batch"
                  /\ UNCHANGED result
             ELSE /\ Return("err")            \* bail!("unexpected GX primitive type")
                  /\ UNCHANGED <<primitive_type, vertex_format, handler, run, records, runStart>>
  /\ UNCHANGED <<vertex_attr_flags, skinned, count, done, batches, runLog>>
  /\ UNCHANGED notGx

\* gx.rs:138-140: the format assertion and the vertex count
BeginBatch ==
  /\ pc = "batch"
  /\ IF vertex_format > 2
     THEN Return("panic") /\ UNCHANGED <<data, count>>
     ELSE \/ Return("err") /\ UNCHANGED <<data, count>>
          \/ \E <<hi, lo>> \in CountWords :
               /\ data' = data \o <<hi, lo>>
               /\ count' = U16(hi, lo)
               /\ pc' = IF U16(hi, lo) = 0 THEN "finish" ELSE "vertex"
               /\ UNCHANGED result
  /\ done' = 0
  /\ UNCHANGED <<vertex_attr_flags, skinned, primitive_type, vertex_format, handler,
                 batches, run, records, runStart, runLog>>
  /\ UNCHANGED notGx

\* gx.rs:141-228: one iteration of the vertex loop
ReadVertex ==
  /\ pc = "vertex"
  /\ \E p \in VertexRecords :
       /\ data' = data \o p.bytes
       /\ IF p.status = "cont"
          THEN /\ handler' = HandleVertex(primitive_type, handler, p.v)
               /\ run' = Append(run, p.v)
               /\ records' = Append(records, p.words)
               /\ done' = done + 1
               /\ pc' = IF done + 1 = count THEN "finish" ELSE "vertex"
               /\ UNCHANGED result
          ELSE /\ Return(p.status)
               /\ UNCHANGED <<handler, run, records, done>>
  /\ UNCHANGED <<vertex_attr_flags, skinned, primitive_type, vertex_format, count,
                 batches, runStart, runLog>>
  /\ UNCHANGED notGx

\* gx.rs:230 and the batches.push of parse
FinishBatch ==
  /\ pc = "finish"
  /\ IF FinishPanics(primitive_type, handler)
     THEN Return("panic") /\ UNCHANGED <<batches, runLog>>
     ELSE /\ batches' = Append(batches, Finish(handler))
          /\ runLog' = Append(runLog, [kind |-> primitive_type, format |-> vertex_format,
                                       vertices |-> run, words |-> records,
                                       start |-> runStart, end |-> Len(data)])
          /\ pc' = "opcode"
          /\ UNCHANGED result
  /\ UNCHANGED <<vertex_attr_flags, skinned, data, primitive_type, vertex_format, count,
                 done, handler, run, records, runStart>>
  /\ UNCHANGED notGx

GxNext == ReadOpcode \/ BeginBatch \/ ReadVertex \/ FinishBatch

SpecGx == GxInit /\ [][GxNext]_vars


(***************************************************************************)
(* What the topology rules of a run prescribe, stated on the run's vertex   *)
(* sequence vs (1-based) and independent of the handlers above.             *)
(***************************************************************************)
Failed == {"err", "panic"}

TriangleCount(kind, n) ==
  IF kind = GX_TRIANGLES THEN n \div 3
  ELSE IF n >= 3 THEN n - 2 ELSE 0

\* triangle i (0-based) of a run
ExpectedTriangle(kind, vs, i) ==
  CASE kind = GX_TRIANGLES -> <<vs[3 * i + 1], vs[3 * i + 2], vs[3 * i + 3]>>
    [] kind = GX_TRIANGLE_STRIP ->
         IF i % 2 = 0 THEN <<vs[i + 1], vs[i + 2], vs[i + 3]>>
         ELSE <<vs[i + 2], vs[i + 1], vs[i + 3]>>
    [] kind = GX_TRIANGLE_FAN -> <<vs[1], vs[i + 2], vs[i + 3]>>

\* one attribute of the expanded triangles, three entries per triangle
Expanded(kind, vs, field) ==
  [j \in 1..(3 * TriangleCount(kind, Len(vs))) |->
     ExpectedTriangle(kind, vs, (j - 1) \div 3)[((j - 1) % 3) + 1][field]]

Uv0Present == FieldPresent(vertex_attr_flags, 256)

\* the arrays a handler (or a finished Batch) must hold after the vertices vs
ArraysMatch(b, kind, vs) ==
  /\ b.positions = Expanded(kind, vs, "position")
  /\ b.normals = Expanded(kind, vs, "normal")
  /\ b.bone_ids = Expanded(kind, vs, "bone_id")
  /\ b.weights = Expanded(kind, vs, "weight")
  /\ Uv0Present => b.texcoords = Expanded(kind, vs, "texcoord")

\* a vertex as the handler buffers it (an absent texcoord leaves the default)
Buffered(v) == [v EXCEPT !.texcoord = IF @ = None THEN Zero ELSE @]

InRun(kind) == primitive_type = kind /\ pc \in {"vertex", "finish"}

\* C1: a triangle-strip run of k vertices has emitted, after every vertex, exactly
\* max(k-2, 0) triangles, triangle i being (v_i, v_i+1, v_i+2) for even i and
\* (v_i+1, v_i, v_i+2) for odd i, its buffer holds the two most recent vertices,
\* and the Batch pushed for the run holds exactly those triangles.
C1_StripTriangles ==
  /\ InRun(GX_TRIANGLE_STRIP) =>
       /\ ArraysMatch(handler, GX_TRIANGLE_STRIP, run)
       /\ Len(handler.positions) = 3 * (IF Len(run) >= 3 THEN Len(run) - 2 ELSE 0)
       /\ Len(run) >= 2 =>
            /\ handler.a = Buffered(run[Len(run) - 1])
            /\ handler.b = Buffered(run[Len(run)])
  /\ \A j \in 1..Len(runLog) :
       runLog[j].kind = GX_TRIANGLE_STRIP =>
         ArraysMatch(batches[j], GX_TRIANGLE_STRIP, runLog[j].vertices)

\* a finished strip of four vertices, neighbours at different positions, whose
\* two triangles (one of each parity) were pushed as a Batch
C1_Witness ==
  \E j \in 1..Len(runLog) :
    /\ runLog[j].kind = GX_TRIANGLE_STRIP
    /\ Len(runLog[j].vertices) = 4
    /\ runLog[j].vertices[1].position # runLog[j].vertices[2].position
    /\ runLog[j].vertices[3].position # runLog[j].vertices[4].position
    /\ Len(batches[j].positions) = 6
    /\ Len(batches[j].texcoords) = 6 \/ ~Uv0Present

\* C2: a triangle-fan run of k vertices has emitted, after every vertex, exactly
\* max(k-2, 0) triangles, triangle i being (v_0, v_i+1, v_i+2); the first vertex of
\* the run stays in the first buffer slot and the second slot holds the latest one.
C2_FanTriangles ==
  /\ InRun(GX_TRIANGLE_FAN) =>
       /\ ArraysMatch(handler, GX_TRIANGLE_FAN, run)
       /\ Len(handler.positions) = 3 * (IF Len(run) >= 3 THEN Len(run) - 2 ELSE 0)
       /\ Len(run) >= 1 => handler.a = Buffered(run[1])
       /\ Len(run) >= 2 => handler.b = Buffered(run[Len(run)])
  /\ \A j \in 1..Len(runLog) :
       runLog[j].kind = GX_TRIANGLE_FAN =>
         ArraysMatch(batches[j], GX_TRIANGLE_FAN, runLog[j].vertices)

C2_Witness ==
  \E j \in 1..Len(runLog) :
    /\ runLog[j].kind = GX_TRIANGLE_FAN
    /\ Len(runLog[j].vertices) = 4
    /\ runLog[j].vertices[1].position # runLog[j].vertices[2].position
    /\ runLog[j].vertices[2].position # runLog[j].vertices[3].position
    /\ Len(batches[j].positions) = 6

NextOpcodeAt == (IF runLog = <<>> THEN 0 ELSE runLog[Len(runLog)].end) + 1

\* the last byte consumed is a zero read at an opcode position
ZeroOpcodeRead == Len(data) = NextOpcodeAt /\ data[Len(data)] = 0

\* C4 (as claimed): every Batch that parse returns has positions, normals,
\* texcoords, bone ids and weights of one common length, a multiple of 3.
C4_BatchArraysSameLength ==
  result = "ok" =>
    \A j \in 1..Len(batches) :
      /\ Len(batches[j].positions) % 3 = 0
      /\ Len(batches[j].normals) = Len(batches[j].positions)
      /\ Len(batches[j].texcoords) = Len(batches[j].positions)
      /\ Len(batches[j].bone_ids) = Len(batches[j].positions)
      /\ Len(batches[j].weights) = Len(batches[j].positions)

\* C5: parse returns at the first zero byte read at an opcode position, and only
\* there: when it returns "ok" the zero opcode is the last byte consumed; the
\* batches are, in stream order, exactly one per run that precedes it, each run
\* starting right after the one before; a parse that ends anywhere else fails.
C5_StopsAtZeroOpcode ==
  /\ Len(batches) = Len(runLog)
  /\ \A j \in 1..Len(runLog) :
       /\ PrimitiveTypeOf(data[runLog[j].start]) = runLog[j].kind
       /\ data[runLog[j].start] # 0
       /\ runLog[j].start = (IF j = 1 THEN 0 ELSE runLog[j - 1].end) + 1
       /\ ArraysMatch(batches[j], runLog[j].kind, runLog[j].vertices)
       /\ ~Uv0Present => batches[j].texcoords = <<>>
  /\ pc = "done" => (result = "ok" <=> ZeroOpcodeRead)
  /\ pc = "done" => result \in {"ok"} \cup Failed

\* a stream of two runs, the first with a triangle, ended by a zero opcode
C5_Witness ==
  /\ result = "ok"
  /\ Len(batches) = 2
  /\ Len(batches[1].positions) = 3
  /\ runLog[1].kind # runLog[2].kind

\* the attributes of the mask that parse_batch reads an index for
NumAttributes ==
  Cardinality({ low \in {1, 4, 256, 1024, 4096} : FieldPresent(vertex_attr_flags, low) })

\* the words of one vertex record against the vertex decoded from it
RecordMatches(w, v, format) ==
  /\ Len(w) = NumAttributes
  /\ v.position = PositionAt(w[1])
  /\ v.normal = IF format = 0 THEN NormalFloatAt(w[2]) ELSE NormalShortAt(w[2])
  /\ v.texcoord = IF Uv0Present THEN UvFloatAt(w[3]) ELSE None

\* C6: every vertex record holds one 16-bit index per attribute present in the
\* mask, the first three being position, normal and uv0 (when present); a run of k
\* vertices takes 2 + 2*k*(present attributes) bytes after its opcode and the next
\* opcode is the byte right after.
C6_RecordLayout ==
  /\ pc \in {"vertex", "finish"} =>
       /\ Len(data) - runStart = 2 + 2 * Len(run) * NumAttributes
       /\ Len(records) = Len(run)
       /\ \A i \in 1..Len(run) : RecordMatches(records[i], run[i], vertex_format)
  /\ \A j \in 1..Len(runLog) :
       /\ runLog[j].end - runLog[j].start = 2 + 2 * Len(runLog[j].vertices) * NumAttributes
       /\ \A i \in 1..Len(runLog[j].vertices) :
            RecordMatches(runLog[j].words[i], runLog[j].vertices[i], runLog[j].format)
       /\ j < Len(runLog) => runLog[j + 1].start = runLog[j].end + 1
  /\ pc = "opcode" => Len(data) + 1 = NextOpcodeAt

\* a finished run of two vertices under position, normal, uv0, uv1, uv2
C6_Witness ==
  /\ NumAttributes = 5
  /\ \E j \in 1..Len(runLog) :
       /\ Len(runLog[j].vertices) = 2
       /\ runLog[j].end - runLog[j].start = 22
       /\ runLog[j].vertices[1].position # runLog[j].vertices[2].position
  /\ result = "ok"

\* the masks the decoder can read: position and normal present, no color0, color1
\* or uv3..uv6, no bit above the eleven 2-bit attribute fields
MaskSupported(flags) ==
  /\ FieldPresent(flags, 1)
  /\ FieldPresent(flags, 4)
  /\ ~FieldPresent(flags, 16)
  /\ ~FieldPresent(flags, 64)
  /\ ~FieldPresent(flags, 16384)
  /\ ~FieldPresent(flags, 65536)
  /\ ~FieldPresent(flags, 262144)
  /\ ~FieldPresent(flags, 1048576)
  /\ flags < 4194304

\* the stream holds a primitive run with at least one vertex record
VertexRunSeen == \E j \in 1..Len(runLog) : runLog[j].vertices # <<>>

\* C7 (as claimed, on runs that hold a vertex record): a stream with a primitive
\* run of an unknown vertex format, or under a mask that selects an attribute the
\* decoder cannot read, never decodes: parse does not return "ok".
C7_UnsupportedFails ==
  (VertexRunSeen /\ ~MaskSupported(vertex_attr_flags)) => result # "ok"


(***************************************************************************)
(* pak.rs: Pak::data and ResourceTableEntry::data                           *)
(*                                                                          *)
(* flate2 lies outside the repository.  Its decompressor is modelled by a   *)
(* run-length code that keeps what ResourceTableEntry::data relies on: the  *)
(* stream is a list of <<count, byte>> pairs closed by an end marker (a     *)
(* count of 0); output is written into a prefix of the caller's slice and   *)
(* the rest of the slice is left as it was; StreamEnd is reported only when *)
(* the end marker has been consumed; a count above MaxRunLen is invalid     *)
(* data (an Err); running out of input or of output space is BufError.      *)
(***************************************************************************)
MaxResources == 2
MaxBytes == 2
MaxRunLen == 2
MaxUncompressedSize == 3
MaxStreamLen == 4

Min(a, b) == IF a < b THEN a ELSE b

Zeros(n) == [i \in 1..n |-> 0]

Repeat(n, b) == [i \in 1..n |-> b]

\* bytes.rs read_u32: four bytes, big endian
U32(b) == ((b[1] * 256 + b[2]) * 256 + b[3]) * 256 + b[4]

RECURSIVE InflateFrom(_, _, _)
InflateFrom(input, written, capacity) ==
  IF input = <<>> THEN [status |-> "BufError", out |-> written]
  ELSE IF input[1] = 0 THEN [status |-> "StreamEnd", out |-> written]
  ELSE IF input[1] > MaxRunLen THEN [status |-> "DataError", out |-> written]
  ELSE IF Len(input) < 2 THEN [status |-> "BufError", out |-> written]
  ELSE IF Len(written) + input[1] > capacity
       THEN [status |-> "BufError",
             out |-> written \o Repeat(capacity - Len(written), input[2])]
       ELSE InflateFrom(SubSeq(input, 3, Len(input)),
                        written \o Repeat(input[1], input[2]), capacity)

\* Decompress::decompress(input, &mut output, Finish) on a fresh decompressor
Decompress(input, output) ==
  LET r == InflateFrom(input, <<>>, Len(output))
  IN  [status |-> r.status,
       output |-> r.out \o SubSeq(output, Len(r.out) + 1, Len(output))]

\* pak.rs:143-165
EntryData(entry) ==
  IF entry.compression = 0
  THEN [status |-> "ok", found |-> TRUE, bytes |-> entry.data]
  ELSE IF entry.compression = 1
  THEN IF Len(entry.data) < 4
       THEN [status |-> "err", found |-> TRUE, bytes |-> <<>>]      \* read_u32()?
       ELSE LET uncompressed_size == U32(entry.data)
                compressed == SubSeq(entry.data, 5, Len(entry.data))
                d == Decompress(compressed, Zeros(uncompressed_size))
            IN  IF d.status = "DataError"
                THEN [status |-> "err", found |-> TRUE, bytes |-> <<>>]     \* decompress(..)?
                ELSE IF d.status # "StreamEnd"
                THEN [status |-> "panic", found |-> TRUE, bytes |-> <<>>]   \* assert_eq!
                ELSE [status |-> "ok", found |-> TRUE, bytes |-> d.output]
  ELSE [status |-> "err", found |-> TRUE, bytes |-> <<>>]           \* bail!

\* a table that answers every id with its first entry
PakFindFirstEntry(table, id) == IF table = <<>> THEN 0 ELSE 1

\* pak.rs:74-75: iter().find(|entry| entry.file_id == file_id); 0 when there is none
PakFind(table, id) ==
  IF \E i \in 1..Len(table) : table[i].file_id = id
  THEN CHOOSE i \in 1..Len(table) :
         /\ table[i].file_id = id
         /\ \A j \in 1..(i - 1) : table[j].file_id # id
  ELSE 0

\* pak.rs:72-78
PakDataResult(table, id) ==
  LET i == PakFind(table, id)
  IN  IF i = 0
      THEN [status |-> "ok", found |-> FALSE, bytes |-> <<>>]        \* Ok(None)
      ELSE EntryData(table[i])

\* ---- building containers ----
IdSet == 1..MaxResources
QuerySet == 1..(MaxResources + 1)
ByteSet == {0, 7}
StreamBytes == (0..MaxRunLen) \cup {7}

SeqsUpTo(S, n) == UNION {[1..k -> S] : k \in 0..n}

\* the length of the run of equal bytes that opens a non-empty sequence
LeadingRun(bytes) ==
  CHOOSE n \in 1..Min(Len(bytes), MaxRunLen) :
    /\ \A i \in 1..n : bytes[i] = bytes[1]
    /\ n = Min(Len(bytes), MaxRunLen) \/ bytes[n + 1] # bytes[1]

\* the encoder that matches Decompress
RECURSIVE Deflate(_)
Deflate(bytes) ==
  IF bytes = <<>> THEN <<0>>
  ELSE LET n == LeadingRun(bytes)
       IN  <<n, bytes[1]>> \o Deflate(SubSeq(bytes, n + 1, Len(bytes)))

SizePrefix(n) ==
  <<(n \div 16777216) % 256, (n \div 65536) % 256, (n \div 256) % 256, n % 256>>

\* the resource table entry a writer stores for one resource
StoredEntry(r) ==
  [compression |-> IF r.compressed THEN 1 ELSE 0,
   file_id |-> r.file_id,
   data |-> IF r.compressed THEN SizePrefix(Len(r.bytes)) \o Deflate(r.bytes)
            ELSE r.bytes]

Resources == [file_id : IdSet, compressed : BOOLEAN, bytes : SeqsUpTo(ByteSet, MaxBytes)]

\* containers built from raw and compressed resources with distinct ids, in any order
PakInit ==
  /\ IdleButPak
  /\ originals \in {rs \in SeqsUpTo(Resources, MaxResources) :
                      \A i, j \in 1..Len(rs) : i # j => rs[i].file_id # rs[j].file_id}
  /\ resource_table = [i \in 1..Len(originals) |-> StoredEntry(originals[i])]
  /\ pak_pc = "ready"
  /\ file_id = 0
  /\ pak_result = [status |-> "none", found |-> FALSE, bytes |-> <<>>]

\* containers whose one entry holds arbitrary bytes
PakCorruptInit ==
  /\ IdleButPak
  /\ originals = <<>>
  /\ \E compression \in 0..2, size \in 0..MaxUncompressedSize,
        stream \in SeqsUpTo(StreamBytes, MaxStreamLen), short \in BOOLEAN :
       resource_table =
         <<[compression |-> compression, file_id |-> 1,
            data |-> IF short THEN SubSeq(SizePrefix(size), 2, 4)
                     ELSE SizePrefix(size) \o stream]>>
  /\ pak_pc = "ready"
  /\ file_id = 0
  /\ pak_result = [status |-> "none", found |-> FALSE, bytes |-> <<>>]

\* one call of Pak::data
PakData ==
  /\ pak_pc \in {"ready", "returned"}
  /\ \E id \in QuerySet :
       /\ file_id' = id
       /\ pak_result' = PakDataResult(resource_table, id)
  /\ pak_pc' = "returned"
  /\ UNCHANGED <<resource_table, originals>>
  /\ UNCHANGED notPak

PakNext == PakData

SpecPak == PakInit /\ [][PakNext]_vars

SpecPakCorrupt == PakCorruptInit /\ [][PakNext]_vars

\* C8: in a container built from raw and compressed resources with distinct ids,
\* Pak::data(id) returns for every stored id exactly the original bytes of that
\* resource, wherever its entry stands in the resource table.
C8_RoundTrip ==
  pak_pc = "returned" =>
    \A i \in 1..Len(originals) :
      originals[i].file_id = file_id =>
        pak_result = [status |-> "ok", found |-> TRUE, bytes |-> originals[i].bytes]

\* a compressed resource behind a raw one is asked for; its stored form is not its bytes
C8_Witness ==
  /\ pak_pc = "returned"
  /\ Len(originals) = 2
  /\ originals[1].compressed = FALSE
  /\ originals[2].compressed = TRUE
  /\ originals[2].file_id = file_id
  /\ originals[2].bytes = <<7, 7>>
  /\ resource_table[2].data = <<0, 0, 0, 2, 2, 7, 0>>
  /\ pak_result.bytes = <<7, 7>>

\* what a stream decompresses to, as a length: None when it does not end cleanly
RECURSIVE ExpandedLength(_)
ExpandedLength(stream) ==
  IF stream = <<>> THEN None
  ELSE IF stream[1] = 0 THEN 0
  ELSE IF stream[1] > MaxRunLen \/ Len(stream) < 2 THEN None
  ELSE LET rest == ExpandedLength(SubSeq(stream, 3, Len(stream)))
       IN  IF rest = None THEN None ELSE stream[1] + rest

CompressedEntryAsked ==
  /\ pak_pc = "returned"
  /\ file_id = 1
  /\ resource_table[1].compression = 1
  /\ Len(resource_table[1].data) >= 4

\* C9 (as claimed): for a compressed resource Pak::data succeeds only if the
\* stream ends cleanly and decompresses to exactly the declared number of bytes;
\* otherwise the call fails and returns no buffer.
C9_SizeAndEndChecked ==
  CompressedEntryAsked =>
    LET declared == U32(resource_table[1].data)
        length == ExpandedLength(SubSeq(resource_table[1].data, 5,
                                        Len(resource_table[1].data)))
    IN  IF length # None /\ length = declared
        THEN pak_result.status = "ok"
        ELSE pak_result.status \in Failed /\ pak_result.bytes = <<>>


(***************************************************************************)
(* cskr.rs: Cskr::read_from over a resource read group by group             *)
(***************************************************************************)
MaxGroups == 3
MaxWeights == 2
MaxVertexCount == 2
MaxWeightCount == 3

WeightSet == {[bone_id |-> 3, weight |-> 1]}

\* VertexGroup::read_from, cskr.rs:35-50: the values a complete group can hold
VertexGroups == [weights : SeqsUpTo(WeightSet, MaxWeights), vertex_count : 0..MaxVertexCount]

\* a loop that adds up the groups' vertex counts
CountedVertices(group) == group.vertex_count

\* cskr.rs:20: what one group adds to total_weights
Counted(group) == Len(group.weights)

CskrInit ==
  /\ IdleButCskr
  /\ cskr_pc = "start"
  /\ weight_count = None
  /\ total_weights = 0
  /\ vertex_groups = <<>>
  /\ cskr_result = "none"
  /\ cskr_input = <<>>

\* cskr.rs:13: let weight_count = r.read_u32()?
ReadWeightCount ==
  /\ cskr_pc = "start"
  /\ \/ /\ cskr_result' = "err"
        /\ cskr_pc' = "done"
        /\ UNCHANGED weight_count
     \/ /\ weight_count' \in 0..MaxWeightCount
        /\ cskr_pc' = "loop"
        /\ UNCHANGED cskr_result
  /\ UNCHANGED <<total_weights, vertex_groups, cskr_input>>
  /\ UNCHANGED notCskr

\* cskr.rs:17-22: one iteration of the while loop
ReadVertexGroup ==
  /\ cskr_pc = "loop"
  /\ total_weights < weight_count
  /\ \/ /\ cskr_result' = "err"                \* the resource ends inside the group
        /\ cskr_pc' = "done"
        /\ UNCHANGED <<total_weights, vertex_groups, cskr_input>>
     \/ /\ Len(cskr_input) < MaxGroups
        /\ \E group \in VertexGroups :
             \* u32 addition; the sums stay far below 2^32
             /\ total_weights' = total_weights + Counted(group)
             /\ vertex_groups' = Append(vertex_groups, group)
             /\ cskr_input' = Append(cskr_input, group)
        /\ UNCHANGED <<cskr_pc, cskr_result>>
  /\ UNCHANGED weight_count
  /\ UNCHANGED notCskr

\* cskr.rs:23-26: the loop is left, assert_eq!(total_weights, weight_count), Ok
CheckTotal ==
  /\ cskr_pc = "loop"
  /\ ~(total_weights < weight_count)
  /\ cskr_result' = IF total_weights = weight_count THEN "ok" ELSE "panic"
  /\ cskr_pc' = "done"
  /\ UNCHANGED <<weight_count, total_weights, vertex_groups, cskr_input>>
  /\ UNCHANGED notCskr

CskrNext == ReadWeightCount \/ ReadVertexGroup \/ CheckTotal

SpecCskr == CskrInit /\ [][CskrNext]_vars

RECURSIVE SumVertexCounts(_)
SumVertexCounts(groups) ==
  IF groups = <<>> THEN 0 ELSE groups[1].vertex_count + SumVertexCounts(Tail(groups))

RECURSIVE SumWeights(_)
SumWeights(groups) ==
  IF groups = <<>> THEN 0 ELSE Len(groups[1].weights) + SumWeights(Tail(groups))

MaxSkinGroups == 2

AncsWeightSet == {[bone_id |-> 3, weight |-> 1], [bone_id |-> 4, weight |-> 2]}

AncsGroups == [weights : SeqsUpTo(AncsWeightSet, MaxWeights), vertex_count : 0..MaxVertexCount]

\* the skins Cskr::read_from can return: its loop ends with the group that brings
\* total_weights up to the declared total, so the last group holds a weight
DecodedSkins ==
  {gs \in SeqsUpTo(AncsGroups, MaxSkinGroups) : gs = <<>> \/ gs[Len(gs)].weights # <<>>}

AncsInit ==
  /\ IdleButAncs
  /\ ancs_pc = "load"
  /\ skin \in DecodedSkins
  /\ group_index = 1
  /\ copies = 0
  /\ vertex_bone_ids = <<>>
  /\ vertex_weights = <<>>
  /\ ancs_result = "none"

\* mesh.rs:90-108: the model, the skeleton and the skin are fetched and decoded
LoadResources ==
  /\ ancs_pc = "load"
  /\ \/ /\ ancs_result' \in {"err", "panic"}
        /\ ancs_pc' = "done"
     \/ /\ ancs_pc' = "groups"
        /\ UNCHANGED ancs_result
  /\ UNCHANGED <<skin, group_index, copies, vertex_bone_ids, vertex_weights>>
  /\ UNCHANGED notAncs

\* mesh.rs:110-114: one iteration of `for _ in 0..vertex_group.vertex_count`
PushGroupVertex ==
  /\ ancs_pc = "groups"
  /\ group_index <= Len(skin)
  /\ copies < skin[group_index].vertex_count
  /\ IF Len(skin[group_index].weights) # 1
     THEN /\ ancs_result' = "panic"                       \* assert_eq!
          /\ ancs_pc' = "done"
          /\ UNCHANGED <<copies, vertex_bone_ids, vertex_weights>>
     ELSE /\ vertex_bone_ids' = Append(vertex_bone_ids, skin[group_index].weights[1].bone_id)
          /\ vertex_weights' = Append(vertex_weights, skin[group_index].weights[1].weight)
          /\ copies' = copies + 1
          /\ UNCHANGED <<ancs_pc, ancs_result>>
  /\ UNCHANGED <<skin, group_index>>
  /\ UNCHANGED notAncs

\* mesh.rs:109-110: the inner range is exhausted, the outer loop advances
NextVertexGroup ==
  /\ ancs_pc = "groups"
  /\ group_index <= Len(skin)
  /\ ~(copies < skin[group_index].vertex_count)
  /\ group_index' = group_index + 1
  /\ copies' = 0
  /\ UNCHANGED <<ancs_pc, skin, vertex_bone_ids, vertex_weights, ancs_result>>
  /\ UNCHANGED notAncs

\* mesh.rs:117-162: the surfaces are decoded against the tables
BuildSurfaces ==
  /\ ancs_pc = "groups"
  /\ group_index > Len(skin)
  /\ ancs_result' \in {"ok", "err", "panic"}
  /\ ancs_pc' = "done"
  /\ UNCHANGED <<skin, group_index, copies, vertex_bone_ids, vertex_weights>>
  /\ UNCHANGED notAncs

AncsNext == LoadResources \/ PushGroupVertex \/ NextVertexGroup \/ BuildSurfaces

SpecAncs == AncsInit /\ [][AncsNext]_vars

\* vertex_count copies of each group's first weight, group after group
RECURSIVE GroupCopies(_, _)
GroupCopies(groups, field) ==
  IF groups = <<>> THEN <<>>
  ELSE [i \in 1..groups[1].vertex_count |-> groups[1].weights[1][field]]
         \o GroupCopies(Tail(groups), field)

\* C11 (as claimed): from_ancs never succeeds on a skin with a vertex group whose
\* number of weights is not one, whatever the group's vertex count; when it
\* succeeds the tables hold vertex_count copies of each group's single weight.
C11_MultiWeightRejected ==
  ancs_result = "ok" =>
    /\ \A i \in 1..Len(skin) : Len(skin[i].weights) = 1
    /\ vertex_bone_ids = GroupCopies(skin, "bone_id")
    /\ vertex_weights = GroupCopies(skin, "weight")


(***************************************************************************)
(* cmdl.rs: Cmdl::read_from, the order in which the sections are taken.     *)
(* A section is named by its place in the resource (1 = first); its bytes   *)
(* are looked at only when it is decoded, and what the decoding finds is    *)
(* drawn then.                                                              *)
(***************************************************************************)
MaxSections == 8
MaxMaterialSets == 2
MaxSurfaces == 2

\* header flag values: no bit, bits other than 4, bit 4 alone, bit 4 among others
CmdlFlagSet == {0, 3, 4, 5, 16}

\* a model that takes the short-UV section whatever the header_flags
UvShortAlways(f) == TRUE

\* cmdl.rs:75: flags & 4 != 0
UvShortPresent(f) == (f \div 4) % 2 = 1

CmdlInit ==
  /\ IdleButCmdl
  /\ cmdl_pc = "header"
  /\ header_flags = 0
  /\ section_count = 0
  /\ material_set_count = 0
  /\ sections = <<>>
  /\ cmdl = NoCmdl
  /\ surface_count = 0
  /\ cmdl_result = "none"

CmdlReturn(how) ==
  /\ cmdl_result' = how
  /\ cmdl_pc' = "done"

\* sections.pop_front().unwrap() for the k-th pop of a step
Front(k) == sections[k]
Rest(k) == SubSeq(sections, k + 1, Len(sections))

\* cmdl.rs:29-63: the header, its padding, and every section read into the queue
ReadCmdlHeader ==
  /\ cmdl_pc = "header"
  /\ \/ /\ CmdlReturn("panic")                 \* assert_eq! on magic or version
        /\ UNCHANGED <<header_flags, section_count, material_set_count, sections>>
     \/ /\ CmdlReturn("err")                   \* the resource ends early
        /\ UNCHANGED <<header_flags, section_count, material_set_count, sections>>
     \/ /\ header_flags' \in CmdlFlagSet
        /\ section_count' \in 0..MaxSections
        /\ material_set_count' \in 0..MaxMaterialSets
        /\ sections' = [i \in 1..section_count' |-> i]
        /\ cmdl_pc' = "materials"
        /\ UNCHANGED cmdl_result
  /\ UNCHANGED <<cmdl, surface_count>>
  /\ UNCHANGED notCmdl

\* cmdl.rs:66-69: one iteration of the material set loop
TakeMaterialSet ==
  /\ cmdl_pc = "materials"
  /\ Len(cmdl.materials) < material_set_count
  /\ IF sections = <<>>
     THEN CmdlReturn("panic") /\ UNCHANGED <<sections, cmdl>>        \* unwrap on None
     ELSE \/ CmdlReturn("err") /\ UNCHANGED <<sections, cmdl>>       \* read_typed()?
          \/ /\ sections' = Rest(1)
             /\ cmdl' = [cmdl EXCEPT !.materials = Append(@, Front(1))]
             /\ UNCHANGED <<cmdl_pc, cmdl_result>>
  /\ UNCHANGED <<header_flags, section_count, material_set_count, surface_count>>
  /\ UNCHANGED notCmdl

\* cmdl.rs:71-79: the four attribute buffers and the short-UV buffer
TakeBuffers ==
  /\ cmdl_pc = "materials"
  /\ ~(Len(cmdl.materials) < material_set_count)
  /\ LET n == IF UvShortPresent(header_flags) THEN 5 ELSE 4
     IN  IF Len(sections) < n
         THEN CmdlReturn("panic") /\ UNCHANGED <<sections, cmdl>>    \* unwrap on None
         ELSE /\ sections' = Rest(n)
              /\ cmdl' = [cmdl EXCEPT !.position_data = Front(1),
                                      !.normal_data = Front(2),
                                      !.color_data = Front(3),
                                      !.uv_float_data = Front(4),
                                      !.uv_short_data = IF UvShortPresent(header_flags)
                                                        THEN Front(5) ELSE None]
              /\ cmdl_pc' = "offsets"
              /\ UNCHANGED cmdl_result
  /\ UNCHANGED <<header_flags, section_count, material_set_count, surface_count>>
  /\ UNCHANGED notCmdl

\* cmdl.rs:81-90: the surface-offset table
TakeSurfaceOffsets ==
  /\ cmdl_pc = "offsets"
  /\ IF sections = <<>>
     THEN CmdlReturn("panic") /\ UNCHANGED <<sections, cmdl, surface_count>>
     ELSE \/ CmdlReturn("err") /\ UNCHANGED <<sections, cmdl, surface_count>>   \* read_u32()?
          \/ /\ surface_count' \in 0..MaxSurfaces
             /\ sections' = Rest(1)
             /\ cmdl' = [cmdl EXCEPT !.surface_offsets = Front(1)]
             /\ cmdl_pc' = "surfaces"
             /\ UNCHANGED cmdl_result
  /\ UNCHANGED <<header_flags, section_count, material_set_count>>
  /\ UNCHANGED notCmdl

\* cmdl.rs:93-96: one iteration of the surface loop
TakeSurface ==
  /\ cmdl_pc = "surfaces"
  /\ Len(cmdl.surfaces) < surface_count
  /\ IF sections = <<>>
     THEN CmdlReturn("panic") /\ UNCHANGED <<sections, cmdl>>
     ELSE \/ CmdlReturn("err") /\ UNCHANGED <<sections, cmdl>>       \* read_typed()?
          \/ /\ sections' = Rest(1)
             /\ cmdl' = [cmdl EXCEPT !.surfaces = Append(@, Front(1))]
             /\ UNCHANGED <<cmdl_pc, cmdl_result>>
  /\ UNCHANGED <<header_flags, section_count, material_set_count, surface_count>>
  /\ UNCHANGED notCmdl

\* cmdl.rs:98-113
ReturnCmdl ==
  /\ cmdl_pc = "surfaces"
  /\ ~(Len(cmdl.surfaces) < surface_count)
  /\ CmdlReturn("ok")
  /\ UNCHANGED <<header_flags, section_count, material_set_count, sections, cmdl, surface_count>>
  /\ UNCHANGED notCmdl

CmdlNext ==
  \/ ReadCmdlHeader
  \/ TakeMaterialSet
  \/ TakeBuffers
  \/ TakeSurfaceOffsets
  \/ TakeSurface
  \/ ReturnCmdl

SpecCmdl == CmdlInit /\ [][CmdlNext]_vars

\* the sections taken so far, in the fixed order of the format, absent ones left out
TakenInOrder ==
  LET fixed == <<cmdl.position_data, cmdl.normal_data, cmdl.color_data,
                 cmdl.uv_float_data, cmdl.uv_short_data, cmdl.surface_offsets>>
  IN  cmdl.materials \o SelectSeq(fixed, LAMBDA x : x # None) \o cmdl.surfaces

BuffersTaken == cmdl_pc \in {"offsets", "surfaces"} \/ cmdl.position_data # None

\* C12: the sections are taken strictly in resource order as material sets,
\* positions, normals, colors, float UVs, short UVs exactly when the flag of
\* value 4 is set, the surface-offset table, then the surfaces; with the flag
\* unset the short-UV buffer is empty and takes no section.
C12_SectionOrder ==
  /\ TakenInOrder = [i \in 1..Len(TakenInOrder) |-> i]
  /\ sections = [i \in 1..Len(sections) |-> Len(TakenInOrder) + i]
  /\ BuffersTaken =>
       /\ Len(cmdl.materials) = material_set_count
       /\ cmdl.uv_float_data = material_set_count + 4
       /\ (header_flags \in {4, 5}) <=> cmdl.uv_short_data # None
  /\ cmdl.surface_offsets # None =>
       cmdl.surface_offsets = material_set_count + 4 + (IF header_flags \in {4, 5} THEN 1 ELSE 0) + 1
  /\ cmdl_result = "ok" =>
       /\ BuffersTaken
       /\ cmdl.surface_offsets # None
       /\ Len(cmdl.surfaces) = surface_count

\* a model with other flag bits set but not the short-UV one: one material set,
\* four buffers, the table as sixth section, two surfaces
C12_Witness ==
  /\ cmdl_result = "ok"
  /\ header_flags = 3
  /\ cmdl.materials = <<1>>
  /\ cmdl.uv_float_data = 5
  /\ cmdl.uv_short_data = None
  /\ cmdl.surface_offsets = 6
  /\ cmdl.surfaces = <<7, 8>>


(***************************************************************************)
(* txtr.rs: bit arithmetic on u8 and u16 values                             *)
(***************************************************************************)
Pow2(n) == 2 ^ n

\* x >> n
Shr(x, n) == x \div Pow2(n)

\* x << n on a u8: the bits shifted past bit 7 are lost
Shl8(x, n) == (x * Pow2(n)) % 256

\* x & (2^n - 1)
LowBits(x, n) == x % Pow2(n)

RECURSIVE BitOr(_, _)
BitOr(a, b) ==
  IF a = 0 THEN b
  ELSE IF b = 0 THEN a
  ELSE (IF a % 2 = 1 \/ b % 2 = 1 THEN 1 ELSE 0) + 2 * BitOr(a \div 2, b \div 2)

\* an extension of 3 bits that leaves the middle bits empty
extend3Gapped(x) == BitOr(Shl8(x, 5), Shr(x, 1))

\* txtr.rs:30: (x << 5) | (x << 2) | (x >> 1)
extend3(x) == BitOr(BitOr(Shl8(x, 5), Shl8(x, 2)), Shr(x, 1))

\* txtr.rs:31 and 87: (x << 4) | x
extend4(x) == BitOr(Shl8(x, 4), x)

\* txtr.rs:39 and 50: (x << 3) | (x >> 2)
extend5(x) == BitOr(Shl8(x, 3), Shr(x, 2))

\* txtr.rs:51: (x << 2) | (x >> 4)
extend6(x) == BitOr(Shl8(x, 2), Shr(x, 4))

\* `as u8`
AsU8(x) == x % 256

\* txtr.rs:28-47
decode_rgb5a3(encoded) ==
  IF Shr(encoded, 15) % 2 = 0
  THEN <<extend4(AsU8(LowBits(Shr(encoded, 8), 4))),
         extend4(AsU8(LowBits(Shr(encoded, 4), 4))),
         extend4(AsU8(LowBits(encoded, 4))),
         extend3(AsU8(Shr(encoded, 12)))>>
  ELSE <<extend5(AsU8(LowBits(Shr(encoded, 10), 5))),
         extend5(AsU8(LowBits(Shr(encoded, 5), 5))),
         extend5(AsU8(LowBits(encoded, 5))),
         255>>

\* txtr.rs:49-58
decode_rgb565(encoded) ==
  <<extend5(AsU8(LowBits(Shr(encoded, 11), 5))),
    extend6(AsU8(LowBits(Shr(encoded, 5), 6))),
    extend5(AsU8(LowBits(encoded, 5))),
    255>>

\* [u8; 4] > [u8; 4]: arrays compare lexicographically
ArrayGreater(p, q) ==
  \E i \in 1..4 : p[i] > q[i] /\ \A j \in 1..(i - 1) : p[j] = q[j]

\* a decoder that always blends in three steps
CmprAlwaysThreeStep(color_a_encoded, color_b_encoded) ==
  LET color_a == decode_rgb565(color_a_encoded)
      color_b == decode_rgb565(color_b_encoded)
  IN  <<color_a, color_b,
        [i \in 1..4 |-> AsU8((2 * color_a[i] + color_b[i]) \div 3)],
        [i \in 1..4 |-> AsU8((color_a[i] + 2 * color_b[i]) \div 3)]>>

\* txtr.rs:380-411: the palette of one CMPR sub-block
CmprPalette(color_a_encoded, color_b_encoded) ==
  LET color_a == decode_rgb565(color_a_encoded)
      color_b == decode_rgb565(color_b_encoded)
  IN  IF ArrayGreater(color_a, color_b)
      THEN <<color_a, color_b,
             [i \in 1..4 |-> AsU8((2 * color_a[i] + color_b[i]) \div 3)],
             [i \in 1..4 |-> AsU8((color_a[i] + 2 * color_b[i]) \div 3)]>>
      ELSE <<color_a, color_b,
             [i \in 1..4 |-> AsU8((color_a[i] + color_b[i]) \div 2)],
             <<0, 0, 0, 0>>>>


(***************************************************************************)
(* txtr.rs: dump.  The bytes that follow the 12-byte header are the         *)
(* arithmetic sequence txtr_seed + txtr_step * offset (mod 256), txtr_len   *)
(* bytes long; for the palette formats the palette format word and the two  *)
(* palette dimensions are drawn apart and the sequence starts at the        *)
(* palette.                                                                 *)
(***************************************************************************)
MaxTxtrWidth == 2
MaxTxtrHeight == 2

TxtrFormats == 0..12
TxtrWidths == (1..MaxTxtrWidth) \cup {9}
TxtrHeights == (1..MaxTxtrHeight) \cup {5, 9}
PaletteFormats == 0..3
TxtrSeeds == {0, 18}
TxtrSteps == {7, 18}
TxtrLengths == {40, 4096}

\* txtr.rs:13-24: the format tags with a decoder
SupportedFormats == {0, 1, 2, 3, 4, 5, 7, 8, 9, 10}

\* a fetcher for every palette format word
AnyPaletteFormat == 0..3

\* txtr.rs:61-64: the palette formats with a fetcher
SupportedPaletteFormats == {1, 2}

\* txtr.rs:205-206 and 242-243: the bytes of the palette in front of the pixels
PaletteBytes == IF txtr_format = 4 THEN 32 ELSE IF txtr_format = 5 THEN 512 ELSE 0

\* the byte at `offset` of the palette
PaletteByte(offset) == (txtr_seed + txtr_step * offset) % 256

\* the pixel payload and its length
DataLen == txtr_len - PaletteBytes
Byte(offset) == (txtr_seed + txtr_step * (PaletteBytes + offset)) % 256

Pixel(rgba) == [status |-> "ok", rgba |-> rgba]
NoPixel(how) == [status |-> how, rgba |-> <<>>]

\* data[offset] .. data[offset + n - 1] by indexing: out of range is a panic
Indexed(offset, n, rgba) == IF offset + n > DataLen THEN NoPixel("panic") ELSE Pixel(rgba)

\* (&data[offset..]).read_u16()?
SliceU16(offset, rgba) ==
  IF offset > DataLen THEN NoPixel("panic")
  ELSE IF offset + 2 > DataLen THEN NoPixel("err")
  ELSE Pixel(rgba)

WordAt(offset) == U16(Byte(offset), Byte(offset + 1))

\* txtr.rs:84 and 217
Offset4(x, y) ==
  32 * (((txtr_width + 7) \div 8) * (y \div 8) + (x \div 8)) + (8 * (y % 8) + (x % 8)) \div 2

\* txtr.rs:116, 146 and 254
Offset8(x, y) ==
  32 * (((txtr_width + 7) \div 8) * (y \div 4) + (x \div 8)) + 1 * (8 * (y % 4) + (x % 8))

\* txtr.rs:180, 284 and 314
Offset16(x, y) ==
  32 * (((txtr_width + 3) \div 4) * (y \div 4) + (x \div 4)) + 2 * (4 * (y % 4) + (x % 4))

\* a tile row that counts only the whole tiles of a row of pixels
Offset32WholeTiles(x, y) ==
  64 * ((txtr_width \div 4) * (y \div 4) + (x \div 4)) + 2 * (4 * (y % 4) + (x % 4))

\* txtr.rs:344
Offset32(x, y) ==
  64 * (((txtr_width + 3) \div 4) * (y \div 4) + (x \div 4)) + 2 * (4 * (y % 4) + (x % 4))

\* txtr.rs:375-376
OffsetCmpr(x, y) ==
  32 * (((txtr_width + 7) \div 8) * (y \div 8) + (x \div 8))
    + 8 * BitOr(Shl8((y \div 4) % 2, 1), (x \div 4) % 2)

\* txtr.rs:86 and 219: `if x & 1 == 0 { x >> 4 } else { x & 0xf }` where x is, by
\* then, the byte read from the payload
Nibble(byte) == IF byte % 2 = 0 THEN Shr(byte, 4) ELSE LowBits(byte, 4)

\* txtr.rs:60-66: the fetcher applied to the palette
PaletteColor(index) ==
  LET word == U16(PaletteByte(2 * index), PaletteByte(2 * index + 1))
  IN  IF palette_format = 1 THEN decode_rgb565(word) ELSE decode_rgb5a3(word)

\* the body of the inner loop of each dump_* function
DecodePixel(x, y) ==
  CASE txtr_format = 0 ->
         LET i == extend4(Nibble(Byte(Offset4(x, y))))
         IN  Indexed(Offset4(x, y), 1, <<i, i, i, 255>>)
    [] txtr_format = 1 ->
         LET i == Byte(Offset8(x, y))
         IN  Indexed(Offset8(x, y), 1, <<i, i, i, 255>>)
    [] txtr_format = 2 ->
         LET encoded == Byte(Offset8(x, y))
             i == extend4(Shr(encoded, 4))
             a == extend4(LowBits(encoded, 4))
         IN  Indexed(Offset8(x, y), 1, <<i, i, i, a>>)
    [] txtr_format = 3 ->
         LET o == Offset16(x, y)
         IN  Indexed(o, 2, <<Byte(o), Byte(o), Byte(o), Byte(o + 1)>>)
    [] txtr_format = 4 ->
         Indexed(Offset4(x, y), 1, PaletteColor(Nibble(Byte(Offset4(x, y)))))
    [] txtr_format = 5 ->
         Indexed(Offset8(x, y), 1, PaletteColor(Byte(Offset8(x, y))))
    [] txtr_format = 7 ->
         SliceU16(Offset16(x, y), decode_rgb565(WordAt(Offset16(x, y))))
    [] txtr_format = 8 ->
         SliceU16(Offset16(x, y), decode_rgb5a3(WordAt(Offset16(x, y))))
    [] txtr_format = 9 ->
         LET o == Offset32(x, y)
         IN  Indexed(o, 34, <<Byte(o + 1), Byte(o + 32), Byte(o + 33), Byte(o)>>)
    [] txtr_format = 10 ->
         LET o == OffsetCmpr(x, y)
             palette == CmprPalette(WordAt(o), WordAt(o + 2))
             index == Shr(Byte(o + 4 + (y % 4)), 2 * (3 - (x % 4))) % 4
         IN  Indexed(o, 8, palette[index + 1])

\* one pass of `for x in 0..width`
DecodeRow(y) == [x \in 1..txtr_width |-> DecodePixel(x - 1, y)]

\* the row as decoded, or how its first failing pixel fails
RowOutcome(y) ==
  LET row == DecodeRow(y)
      bad == {x \in 1..txtr_width : row[x].status # "ok"}
  IN  IF bad = {} THEN "ok"
      ELSE row[CHOOSE x \in bad : \A z \in bad : x <= z].status

TxtrInit ==
  /\ IdleButTxtr
  /\ txtr_pc = "start"
  /\ txtr_format \in TxtrFormats
  /\ txtr_width \in TxtrWidths
  /\ txtr_height \in TxtrHeights
  /\ palette_format \in PaletteFormats
  /\ txtr_format \notin {4, 5} => palette_format = 0
  /\ txtr_seed \in TxtrSeeds
  /\ txtr_step \in TxtrSteps
  /\ txtr_len \in TxtrLengths
  /\ txtr_y = 0
  /\ decoded = <<>>
  /\ image_written = FALSE
  /\ txtr_result = "none"

TxtrReturn(how) ==
  /\ txtr_result' = how
  /\ txtr_pc' = "done"

\* txtr.rs:8-25, and for the palette formats 202-206 / 239-243
DumpHeader ==
  /\ txtr_pc = "start"
  /\ IF txtr_format \notin SupportedFormats
     THEN TxtrReturn("err") /\ UNCHANGED txtr_y                      \* bail!
     ELSE IF txtr_format \in {4, 5} /\ palette_format \notin SupportedPaletteFormats
     THEN TxtrReturn("err") /\ UNCHANGED txtr_y                      \* palette_fetcher(..)?
     ELSE IF txtr_format \in {4, 5} /\ txtr_len < PaletteBytes
     THEN TxtrReturn("panic") /\ UNCHANGED txtr_y                    \* &data[..32]
     ELSE \/ /\ txtr_format \in {4, 5}
             /\ TxtrReturn("panic")                                  \* assert_eq! on a dimension
             /\ UNCHANGED txtr_y
          \/ /\ txtr_pc' = "rows"
             /\ txtr_y' = txtr_height - 1        \* first item of (0..height).rev()
             /\ UNCHANGED txtr_result
  /\ UNCHANGED <<txtr_format, txtr_width, txtr_height, palette_format, txtr_seed,
                 txtr_step, txtr_len, decoded, image_written>>
  /\ UNCHANGED notTxtr

\* a loop body that uses the reversed loop variable as it comes
LoopVariableAsRow(loop_y) == loop_y

\* txtr.rs:78 (and 110, 140, 174, 211, 248, 278, 308, 338, 371): let y = height - y - 1
StorageRow(loop_y) == txtr_height - loop_y - 1

\* one iteration of `for y in (0..height).rev()`, txtr_y being the loop variable
DumpRow ==
  /\ txtr_pc = "rows"
  /\ txtr_y >= 0
  /\ LET y == StorageRow(txtr_y)
     IN  IF RowOutcome(y) = "ok"
         THEN /\ decoded' = Append(decoded, [x \in 1..txtr_width |-> DecodeRow(y)[x].rgba])
              /\ txtr_y' = txtr_y - 1
              /\ UNCHANGED <<txtr_pc, txtr_result>>
         ELSE /\ TxtrReturn(RowOutcome(y))
              /\ UNCHANGED <<decoded, txtr_y>>
  /\ UNCHANGED <<txtr_format, txtr_width, txtr_height, palette_format, txtr_seed,
                 txtr_step, txtr_len, image_written>>
  /\ UNCHANGED notTxtr

\* the png encoder: write_header()? and write_image_data(&decoded)?
WriteImage ==
  /\ txtr_pc = "rows"
  /\ txtr_y < 0
  /\ \/ TxtrReturn("err") /\ UNCHANGED image_written
     \/ TxtrReturn("ok") /\ image_written' = TRUE
  /\ UNCHANGED <<txtr_format, txtr_width, txtr_height, palette_format, txtr_seed,
                 txtr_step, txtr_len, txtr_y, decoded>>
  /\ UNCHANGED notTxtr

TxtrNext == DumpHeader \/ DumpRow \/ WriteImage

SpecTxtr == TxtrInit /\ [][TxtrNext]_vars

\* C13: dump ends in an error, and no image is written, for every format tag
\* other than 0, 1, 2, 3, 4, 5, 7, 8, 9, 10 and, for the palette formats 4 and
\* 5, for every palette format other than RGB565 (1) and RGB5A3 (2).
C13_UnsupportedFormatFails ==
  (/\ txtr_pc = "done"
   /\ \/ txtr_format \notin {0, 1, 2, 3, 4, 5, 7, 8, 9, 10}
      \/ txtr_format \in {4, 5} /\ palette_format \notin {1, 2})
  => /\ txtr_result = "err"
     /\ ~image_written
     /\ decoded = <<>>

\* a dump of a 4-bit palette texture with palette format 0 has returned
C13_Witness ==
  /\ txtr_pc = "done"
  /\ txtr_format = 4
  /\ palette_format = 0
  /\ txtr_result = "err"


(***************************************************************************)
(* txtr.rs: the channel extensions, applied to every value of every width   *)
(***************************************************************************)
ChannelWidths == {3, 4, 5, 6}

\* the closure the decoders use for a channel of n bits
Extend(n, x) ==
  CASE n = 3 -> extend3(x)
    [] n = 4 -> extend4(x)
    [] n = 5 -> extend5(x)
    [] n = 6 -> extend6(x)

\* an encoded pixel whose n-bit channel holds x and whose other bits are zero, and
\* the place of that channel in the decoded pixel
ChannelProbe(n, x) ==
  CASE n = 3 -> [encoded |-> x * 4096, format |-> 8, at |-> 4]
    [] n = 4 -> [encoded |-> x * 256, format |-> 8, at |-> 1]
    [] n = 5 -> [encoded |-> x * 2048, format |-> 7, at |-> 1]
    [] n = 6 -> [encoded |-> x * 32, format |-> 7, at |-> 2]

ExtendInit ==
  /\ IdleButPixel
  /\ pixel_pc = "ready"
  /\ \E n \in ChannelWidths : \E x \in 0..(Pow2(n) - 1) : pixel_in = <<n, x>>
  /\ pixel_out = <<>>

\* the decoder of the probe's format applied to it
ApplyExtend ==
  /\ pixel_pc = "ready"
  /\ LET probe == ChannelProbe(pixel_in[1], pixel_in[2])
         rgba == IF probe.format = 7 THEN decode_rgb565(probe.encoded)
                 ELSE decode_rgb5a3(probe.encoded)
     IN  pixel_out' = <<rgba[probe.at]>>
  /\ pixel_pc' = "done"
  /\ UNCHANGED pixel_in
  /\ UNCHANGED notPixel

ExtendNext == ApplyExtend

SpecExtend == ExtendInit /\ [][ExtendNext]_vars

\* the n-bit pattern of x repeated three times, cut to its top 8 bits
Replicated(n, x) == (x * (Pow2(2 * n) + Pow2(n) + 1)) \div Pow2(3 * n - 8)

\* C14: the 8-bit extension of an n-bit channel value x (n = 3, 4, 5, 6) is the
\* bit pattern of x repeated from the top, no shifted bit is lost, 0 gives 0,
\* 2^n - 1 gives 255 and a larger x gives a larger result.
C14_ChannelExtension ==
  pixel_pc = "done" =>
    LET n == pixel_in[1]
        x == pixel_in[2]
        out == pixel_out[1]
    IN  /\ out = Replicated(n, x)
        /\ out = Extend(n, x)
        /\ n = 3 => out = x * 32 + x * 4 + x \div 2
        /\ n = 4 => out = x * 16 + x
        /\ n = 5 => out = x * 8 + x \div 4
        /\ n = 6 => out = x * 4 + x \div 16
        /\ x = 0 => out = 0
        /\ x = Pow2(n) - 1 => out = 255
        /\ x > 0 => Extend(n, x - 1) < out

\* the 3-bit alpha value 5 (101) was extended to 10110110
C14_Witness ==
  /\ pixel_pc = "done"
  /\ pixel_in = <<3, 5>>
  /\ pixel_out = <<182>>


\* the pixels of storage row y of the tiled payload
StoredRow(y) == [x \in 1..txtr_width |-> DecodePixel(x - 1, y).rgba]

\* C15 (as claimed): output row r (0 = first row written) of an image of height
\* h is decoded from storage row h - 1 - r.
C15_RowsMirrored ==
  txtr_result = "ok" =>
    \A r \in 0..(Len(decoded) - 1) : decoded[r + 1] = StoredRow(txtr_height - 1 - r)

\* C15 (amended): output row r is decoded from storage row r: the reversed loop
\* and `height - y - 1` cancel, so the rows are written in storage order.
C15_RowsInStorageOrder ==
  /\ \A r \in 0..(Len(decoded) - 1) : decoded[r + 1] = StoredRow(r)
  /\ txtr_result = "ok" => Len(decoded) = txtr_height
  /\ txtr_pc = "rows" => Len(decoded) = txtr_height - 1 - txtr_y

\* a block-compressed image of nine rows, the last in a second row of tiles, was
\* written; its first and last rows differ
C15_Witness ==
  /\ txtr_result = "ok"
  /\ image_written
  /\ txtr_format = 10
  /\ txtr_height = 9
  /\ txtr_width = 9
  /\ Len(decoded) = 9
  /\ decoded[1] # decoded[9]
  /\ decoded[1] = StoredRow(0)


\* the 4-bit value packed for pixel (x, y): 8x8 tiles row-major, pixels row-major
\* within a tile, two pixels per byte, the first in the high nibble
PackedNibble(x, y) ==
  LET tiles_wide == (txtr_width + 7) \div 8
      tile == tiles_wide * (y \div 8) + (x \div 8)
      pixel == 8 * (y % 8) + (x % 8)
      byte == Byte(32 * tile + pixel \div 2)
  IN  IF pixel % 2 = 0 THEN byte \div 16 ELSE byte % 16

\* the color a 4-bit value stands for: a grey level, or a palette entry
ColorOfNibble(v) ==
  IF txtr_format = 0 THEN <<v * 17, v * 17, v * 17, 255>> ELSE PaletteColor(v)

\* C16 (as claimed): in the two 4-bit formats every pixel decodes to the value
\* packed at its own position, whatever the other nibble of its byte holds.
C16_NibbleByPosition ==
  txtr_format \in {0, 4} =>
    \A r \in 1..Len(decoded) : \A x \in 1..txtr_width :
      decoded[r][x] = ColorOfNibble(PackedNibble(x - 1, r - 1))


(***************************************************************************)
(* txtr.rs: the palette of a CMPR sub-block, for pairs of endpoint colors   *)
(***************************************************************************)
MaxChannelLow == 1

\* channel values near both ends of the channel's range
ChannelSamples(max) == (0..MaxChannelLow) \cup {max}

\* RGB565 words built from the sampled channel values
Endpoints ==
  {red * 2048 + green * 32 + blue :
     red \in ChannelSamples(31), green \in ChannelSamples(63), blue \in ChannelSamples(31)}

CmprInit ==
  /\ IdleButPixel
  /\ pixel_pc = "ready"
  /\ pixel_in \in Endpoints \X Endpoints
  /\ pixel_out = <<>>

\* txtr.rs:378-411 for one sub-block
ApplyCmprPalette ==
  /\ pixel_pc = "ready"
  /\ pixel_out' = CmprPalette(pixel_in[1], pixel_in[2])
  /\ pixel_pc' = "done"
  /\ UNCHANGED pixel_in
  /\ UNCHANGED notPixel

CmprNext == ApplyCmprPalette

SpecCmpr == CmprInit /\ [][CmprNext]_vars

\* C17: for endpoint words a and b with RGB565 decodings A and B the palette is
\* [A, B, (2A+B)/3, (A+2B)/3] per channel exactly when a > b as unsigned 16-bit
\* numbers, and [A, B, (A+B)/2, (0,0,0,0)] otherwise, a = b included.
C17_CmprPaletteMode ==
  pixel_pc = "done" =>
    LET a == pixel_in[1]
        b == pixel_in[2]
        A == decode_rgb565(a)
        B == decode_rgb565(b)
    IN  /\ pixel_out[1] = A
        /\ pixel_out[2] = B
        /\ a > b =>
             /\ pixel_out[3] = [i \in 1..4 |-> (2 * A[i] + B[i]) \div 3]
             /\ pixel_out[4] = [i \in 1..4 |-> (A[i] + 2 * B[i]) \div 3]
        /\ ~(a > b) =>
             /\ pixel_out[3] = [i \in 1..4 |-> (A[i] + B[i]) \div 2]
             /\ pixel_out[4] = <<0, 0, 0, 0>>

\* a is the larger word although its green and blue channels are the smaller
C17_Witness ==
  /\ pixel_pc = "done"
  /\ pixel_in = <<2048, 2047>>
  /\ pixel_out[3] = <<5, 85, 85, 255>>
  /\ pixel_out[4] = <<2, 170, 170, 255>>


(***************************************************************************)
(* main.rs: the surface loop of make_static_gltf_document and              *)
(* make_skinned_gltf_document, which turns each surface's expanded         *)
(* triangle vertices into a 16-bit index buffer and an attribute buffer.   *)
(***************************************************************************)

\* expanded vertices drawn explicitly per surface, and surfaces per mesh
MaxSurfaceVertices == 4
MaxMeshSurfaces == 3

\* the number of values of u16, the type written by index_buffer.write_u16
IndexLimit == 65536

\* the f32 values the surfaces are built from
Floats == {"0.0", "-0.0", "1.0"}

\* f32::to_bits, as <<sign bit, low 31 bits>>
to_bits(f) ==
  CASE f = "0.0" -> <<0, 0>>
    [] f = "-0.0" -> <<1, 0>>
    [] f = "1.0" -> <<0, 1065353216>>

\* the number an f32 stands for, which is what the == of f32 compares
FloatValue(f) ==
  CASE f = "0.0" -> 0
    [] f = "-0.0" -> 0
    [] f = "1.0" -> 1

\* one expanded vertex of a CanonicalMeshSurface: the i-th items of positions,
\* normals, texcoords, bone_ids and weights
PlainVertex ==
  [position |-> <<"0.0", "0.0", "0.0">>, normal |-> <<"0.0", "0.0", "0.0">>,
   texcoord |-> <<"0.0", "0.0">>, bone_id |-> 3, weight |-> "0.0"]

\* PlainVertex and the vertices that differ from it in the sign of one zero
PositionSamples ==
  {PlainVertex} \cup {[PlainVertex EXCEPT !.position[k] = "-0.0"] : k \in 1..3}

NormalSamples ==
  {PlainVertex} \cup {[PlainVertex EXCEPT !.normal[k] = "-0.0"] : k \in 1..3}

TexcoordSamples ==
  {PlainVertex} \cup {[PlainVertex EXCEPT !.texcoord[k] = "-0.0"] : k \in 1..2}

\* for a skinned mesh: a weight of the other sign, a vertex of another bone
\* and one of a bone the skeleton lacks
WeightSample == [PlainVertex EXCEPT !.weight = "-0.0"]
OtherBoneSample == [PlainVertex EXCEPT !.bone_id = 5]
MissingBoneSample == [PlainVertex EXCEPT !.bone_id = 7]

\* the vertices a surface is drawn from; the surfaces of a mesh take turns in
\* the fields they vary
SurfaceVertices(kind, number) ==
  CASE number % 3 = 1 ->
         PositionSamples
           \cup (IF kind = "skinned" THEN {WeightSample, OtherBoneSample} ELSE {})
    [] number % 3 = 2 ->
         NormalSamples \cup (IF kind = "skinned" THEN {MissingBoneSample} ELSE {})
    [] number % 3 = 0 ->
         TexcoordSamples \cup (IF kind = "skinned" THEN {OtherBoneSample} ELSE {})

\* extract_nodes_from_bone: each bone of the skeleton gets the next joint number
joints_by_bone_id == [b \in {3, 5} |-> IF b = 3 THEN 0 ELSE 1]

\* StaticVertex { position, normal, texcoord }
StaticVertex(sv) ==
  [position |-> sv.position, normal |-> sv.normal, texcoord |-> sv.texcoord]

\* SkinnedVertex { position, normal, texcoord, joint: joints_by_bone_id[&bone_id], weight }
SkinnedVertex(sv) ==
  [position |-> sv.position, normal |-> sv.normal, texcoord |-> sv.texcoord,
   joint |-> joints_by_bone_id[sv.bone_id], weight |-> sv.weight]

MakeVertex(kind, sv) == IF kind = "skinned" THEN SkinnedVertex(sv) ELSE StaticVertex(sv)

\* an equality that compares the fields as numbers, as the == of f32 does
StaticVertexNumericEq(a, b) ==
  /\ \A k \in 1..3 : FloatValue(a.position[k]) = FloatValue(b.position[k])
  /\ \A k \in 1..3 : FloatValue(a.normal[k]) = FloatValue(b.normal[k])
  /\ \A k \in 1..2 : FloatValue(a.texcoord[k]) = FloatValue(b.texcoord[k])

\* impl PartialEq for StaticVertex
StaticVertexEq(a, b) ==
  /\ to_bits(a.position[1]) = to_bits(b.position[1])
  /\ to_bits(a.position[2]) = to_bits(b.position[2])
  /\ to_bits(a.position[3]) = to_bits(b.position[3])
  /\ to_bits(a.normal[1]) = to_bits(b.normal[1])
  /\ to_bits(a.normal[2]) = to_bits(b.normal[2])
  /\ to_bits(a.normal[3]) = to_bits(b.normal[3])
  /\ to_bits(a.texcoord[1]) = to_bits(b.texcoord[1])
  /\ to_bits(a.texcoord[2]) = to_bits(b.texcoord[2])

\* impl PartialEq for SkinnedVertex
SkinnedVertexEq(a, b) ==
  /\ to_bits(a.position[1]) = to_bits(b.position[1])
  /\ to_bits(a.position[2]) = to_bits(b.position[2])
  /\ to_bits(a.position[3]) = to_bits(b.position[3])
  /\ to_bits(a.normal[1]) = to_bits(b.normal[1])
  /\ to_bits(a.normal[2]) = to_bits(b.normal[2])
  /\ to_bits(a.normal[3]) = to_bits(b.normal[3])
  /\ to_bits(a.texcoord[1]) = to_bits(b.texcoord[1])
  /\ to_bits(a.texcoord[2]) = to_bits(b.texcoord[2])
  /\ a.joint = b.joint
  /\ to_bits(a.weight) = to_bits(b.weight)

VertexEq(kind, a, b) ==
  IF kind = "skinned" THEN SkinnedVertexEq(a, b) ELSE StaticVertexEq(a, b)

\* a lookup that finds nothing
GetNothing(kind, map, v) == {}

\* indices_by_vertex.get(&v): the indices stored under a key equal to v; {} is
\* None.  The Hash impls feed the hasher the very words the PartialEq impls
\* compare, so equal keys hash alike and the lookup finds exactly the equal key.
Get(kind, map, v) == {e.index : e \in {e \in map : VertexEq(kind, e.key, v)}}

\* a conversion to u16 that keeps the low 16 bits, as `as u16` does
WrapIntoU16(n) == n % IndexLimit

\* vertex_count.try_into() from usize to u16; None is the Err that unwrap() panics on
TryIntoU16(n) == IF n < IndexLimit THEN n ELSE None

\* StaticVertex::write_to: the eight f32 words of a vertex
StaticWriteTo(v) ==
  <<to_bits(v.position[1]), to_bits(v.position[2]), to_bits(v.position[3]),
    to_bits(v.normal[1]), to_bits(v.normal[2]), to_bits(v.normal[3]),
    to_bits(v.texcoord[1]), to_bits(v.texcoord[2])>>

\* SkinnedVertex::write_to: the same, four joint bytes and four weight words
SkinnedWriteTo(v) ==
  <<to_bits(v.position[1]), to_bits(v.position[2]), to_bits(v.position[3]),
    to_bits(v.normal[1]), to_bits(v.normal[2]), to_bits(v.normal[3]),
    to_bits(v.texcoord[1]), to_bits(v.texcoord[2]),
    v.joint, 0, 0, 0,
    to_bits(v.weight), to_bits("0.0"), to_bits("0.0"), to_bits("0.0")>>

WriteTo(kind, v) == IF kind = "skinned" THEN SkinnedWriteTo(v) ELSE StaticWriteTo(v)

\* lengths of the runs of pairwise distinct vertices a surface may begin with
DistinctRuns == {IndexLimit - 1, IndexLimit, IndexLimit + 1}

SurfaceShapes == {"ok", "ragged", "untextured"}

CanonInit ==
  /\ IdleButCanon
  /\ canon_pc = "surfaces"
  /\ document_kind \in {"static", "skinned"}
  /\ surface_number = 0
  /\ surface_input = <<>>
  /\ distinct_run = 0
  /\ vertex_count = 0
  /\ index_count = 0
  /\ indices_by_vertex = {}
  /\ index_buffer = <<>>
  /\ attribute_buffer = <<>>
  /\ surface_log = <<>>
  /\ canon_result = "none"

\* the function stops at `at`: "assert" (assert_eq! on the lengths, or
\* texture_indices[0]), "bone" (joints_by_bone_id[&bone_id]), "unwrap"
\* (try_into().unwrap()) or "return"
CanonStop(at, how) ==
  /\ canon_pc' = at
  /\ canon_result' = how

\* the head of one iteration of `for surface in &mesh.surfaces`; the part of
\* index_buffer and attribute_buffer from index_byte_offset and
\* attribute_byte_offset on is what the model keeps.  Entered from the end of
\* the previous iteration, whose accessors and primitive are pushed first.
BeginSurface ==
  /\ canon_pc \in {"surfaces", "vertices"}
  /\ surface_number < MaxMeshSurfaces
  /\ surface_number' = surface_number + 1
  /\ surface_input' = <<>>
  /\ distinct_run' = 0
  /\ vertex_count' = 0
  /\ index_count' = 0
  /\ indices_by_vertex' = {}
  /\ index_buffer' = <<>>
  /\ attribute_buffer' = <<>>
  /\ surface_log' = <<>>
  /\ \E shape \in SurfaceShapes :
       IF shape = "ok"
       THEN canon_pc' = "vertices" /\ UNCHANGED canon_result
       ELSE CanonStop("assert", "panic")
  /\ UNCHANGED document_kind
  /\ UNCHANGED notCanon

\* n iterations of the vertex loop at the head of a surface, over n vertices
\* that differ from one another and from every vertex drawn afterwards: each
\* takes the None arm, the k-th vertex (from 0) gets index k.  The indices and
\* vertices of the run are not kept; distinct_run is its length.
PushDistinctRun ==
  /\ canon_pc = "vertices"
  /\ surface_input = <<>>
  /\ distinct_run = 0
  /\ \E n \in DistinctRuns :
       LET stored == IF TryIntoU16(n - 1) = None THEN IndexLimit ELSE n
       IN /\ distinct_run' = n
          /\ vertex_count' = stored
          /\ index_count' = stored
          /\ IF stored < n
             THEN CanonStop("unwrap", "panic")
             ELSE UNCHANGED <<canon_pc, canon_result>>
  /\ UNCHANGED <<document_kind, surface_number, surface_input, indices_by_vertex,
                 index_buffer, attribute_buffer, surface_log>>
  /\ UNCHANGED notCanon

\* one iteration of the vertex loop
PushVertex ==
  /\ canon_pc = "vertices"
  /\ Len(surface_input) < MaxSurfaceVertices
  /\ \E sv \in SurfaceVertices(document_kind, surface_number) :
       /\ surface_input' = Append(surface_input, sv)
       /\ IF document_kind = "skinned" /\ sv.bone_id \notin DOMAIN joints_by_bone_id
          THEN /\ CanonStop("bone", "panic")
               /\ UNCHANGED <<vertex_count, index_count, indices_by_vertex,
                              index_buffer, attribute_buffer, surface_log>>
          ELSE LET v == MakeVertex(document_kind, sv)
                   found == Get(document_kind, indices_by_vertex, v)
                   index == IF found # {} THEN CHOOSE i \in found : TRUE
                            ELSE TryIntoU16(vertex_count)
               IN IF index = None
                  THEN /\ CanonStop("unwrap", "panic")
                       /\ UNCHANGED <<vertex_count, index_count, indices_by_vertex,
                                      index_buffer, attribute_buffer, surface_log>>
                  ELSE /\ IF found # {}
                          THEN UNCHANGED <<vertex_count, attribute_buffer,
                                           indices_by_vertex>>
                          ELSE /\ vertex_count' = vertex_count + 1
                               /\ attribute_buffer' =
                                    Append(attribute_buffer, WriteTo(document_kind, v))
                               /\ indices_by_vertex' =
                                    indices_by_vertex \cup {[key |-> v, index |-> index]}
                       /\ index_buffer' = Append(index_buffer, index)
                       /\ index_count' = index_count + 1
                       /\ surface_log' =
                            Append(surface_log,
                                   [vertex_count |-> vertex_count',
                                    attribute_buffer |-> attribute_buffer',
                                    index_buffer |-> index_buffer'])
                       /\ UNCHANGED <<canon_pc, canon_result>>
  /\ UNCHANGED <<document_kind, surface_number, distinct_run>>
  /\ UNCHANGED notCanon

\* mesh.surfaces is exhausted: the buffers go to gltf_export.bin and the
\* document is returned, unless creating or writing the file fails
ReturnDocument ==
  /\ canon_pc \in {"surfaces", "vertices"}
  /\ \E how \in {"ok", "err"} : CanonStop("return", how)
  /\ UNCHANGED <<document_kind, surface_number, surface_input, distinct_run,
                 vertex_count, index_count, indices_by_vertex, index_buffer,
                 attribute_buffer, surface_log>>
  /\ UNCHANGED notCanon

CanonNext == BeginSurface \/ PushDistinctRun \/ PushVertex \/ ReturnDocument

SpecCanon == CanonInit /\ [][CanonNext]_vars


\* the words input vertex i of the current surface is made of
InputWords(i) == WriteTo(document_kind, MakeVertex(document_kind, surface_input[i]))

\* the vertices of the current surface that went through the loop
Canonicalized == 1..Len(index_buffer)

\* the stored vertex an index of the current surface refers to
StoredVertex(index) == attribute_buffer[index - distinct_run + 1]

\* C18: within one surface two expanded vertices get the same index if and
\* only if every attribute field (position, normal, texcoord and, for a
\* skinned mesh, joint and weight) has the identical bit pattern, so that
\* vertices differing only by 0.0 versus -0.0 get distinct indices; identical
\* vertices are stored once; the stored vertex at index_buffer[i] equals input
\* vertex i; and indices are assigned densely in order of first occurrence.
C18_BitExactDedup ==
  /\ \A i, j \in Canonicalized :
       (index_buffer[i] = index_buffer[j]) <=> (InputWords(i) = InputWords(j))
  /\ \A i \in Canonicalized :
       /\ index_buffer[i] - distinct_run + 1 \in 1..Len(attribute_buffer)
       /\ StoredVertex(index_buffer[i]) = InputWords(i)
       /\ (\A j \in 1..(i - 1) : InputWords(j) # InputWords(i))
            => index_buffer[i] =
                 distinct_run + Cardinality({InputWords(j) : j \in 1..(i - 1)})
  /\ Len(attribute_buffer) = Cardinality({InputWords(i) : i \in Canonicalized})
  /\ Canonicalized # {} =>
       vertex_count = distinct_run + Len(attribute_buffer)

\* a skinned surface of a vertex, the same vertex with weight -0.0, the first
\* again and one of another joint
C18_Witness ==
  /\ document_kind = "skinned"
  /\ surface_input = <<PlainVertex, WeightSample, PlainVertex, OtherBoneSample>>
  /\ index_buffer = <<0, 1, 0, 2>>
  /\ Len(attribute_buffer) = 3


\* the current surface is one batch of n vertices followed by the same batch
DoubledBatch(n) ==
  /\ Len(surface_input) = 2 * n
  /\ Len(surface_log) = 2 * n
  /\ SubSeq(surface_input, 1, n) = SubSeq(surface_input, n + 1, 2 * n)

\* C19: a surface made of the same triangle batch twice has the distinct-vertex
\* count and the stored vertices of the batch fed once, and its index buffer is
\* the index buffer of the single batch followed by an identical copy of it.
C19_BatchTwice ==
  \A n \in 1..MaxSurfaceVertices :
    DoubledBatch(n) =>
      /\ surface_log[2 * n].vertex_count = surface_log[n].vertex_count
      /\ surface_log[2 * n].attribute_buffer = surface_log[n].attribute_buffer
      /\ surface_log[2 * n].index_buffer =
           surface_log[n].index_buffer \o surface_log[n].index_buffer
      /\ vertex_count = surface_log[n].vertex_count
      /\ attribute_buffer = surface_log[n].attribute_buffer
      /\ index_buffer = surface_log[n].index_buffer \o surface_log[n].index_buffer

\* a batch of two different vertices, fed twice to a static surface
C19_Witness ==
  /\ document_kind = "static"
  /\ DoubledBatch(2)
  /\ surface_input[1] # surface_input[2]
  /\ index_buffer = <<0, 1, 0, 1>>
  /\ vertex_count = 2


\* the distinct vertices the surface has asked for so far
Needed ==
  distinct_run
    + Cardinality({MakeVertex(document_kind, surface_input[i]) :
                     i \in {j \in 1..Len(surface_input) :
                              document_kind = "skinned" =>
                                surface_input[j].bone_id \in DOMAIN joints_by_bone_id}})

MaxBones == 2
MaxCallDepth == 4

\* the ids of the bone table, bone k of the table having id k
BoneIds == 1..MaxBones

\* linked_bones of a bone: ids in ascending order
LinkedLists ==
  {<<>>} \cup {<<a>> : a \in BoneIds}
         \cup {p \in BoneIds \X BoneIds : p[1] < p[2]}

\* Cinf.bones: parent id 0 belongs to no bone
BoneTables ==
  UNION {[1..n -> [parent_bone_id : 0..MaxBones, linked_bones : LinkedLists]] :
           n \in 1..MaxBones}

\* cinf.bones.iter().find(|x| x.bone_id == bone_id)
FindBone(bone_id) == IF bone_id \in DOMAIN cinf_bones THEN bone_id ELSE None

\* cinf.bones.iter().find(|x| x.bone_id == linked_bone_id && x.parent_bone_id == bone_id).is_some()
IsChild(linked_bone_id, bone_id) ==
  /\ linked_bone_id \in DOMAIN cinf_bones
  /\ cinf_bones[linked_bone_id].parent_bone_id = bone_id

BoneInit ==
  /\ IdleButBone
  /\ bone_pc = "start"
  /\ cinf_bones \in BoneTables
  /\ build_order_ids \in {<<>>, <<1>>, <<MaxBones + 1>>}
  /\ bone_names \in {DOMAIN cinf_bones, DOMAIN cinf_bones \ {Len(cinf_bones)}}
  /\ call_stack = <<>>
  /\ skeleton = <<>>
  /\ bone_result = "none"

BoneStop(how) ==
  /\ bone_pc' = "done"
  /\ bone_result' = how

\* the entry of interpret_bone(cinf, bone_id): the two finds with their
\* unwrap(), then `let mut children = Vec::new()`.  A call the stack has no
\* room for ends the process.
CallInterpretBone(bone_id) ==
  IF FindBone(bone_id) = None \/ bone_id \notin bone_names
  THEN BoneStop("panic") /\ UNCHANGED call_stack
  ELSE IF Len(call_stack) = MaxCallDepth
  THEN BoneStop("overflow") /\ UNCHANGED call_stack
  ELSE /\ call_stack' =
            Append(call_stack, [bone_id |-> bone_id, linked |-> 1, children |-> <<>>])
       /\ bone_pc' = "walk"
       /\ UNCHANGED bone_result

\* mesh.rs:101: interpret_bone(&skeleton, skeleton.build_order_ids[0])
InterpretRoot ==
  /\ bone_pc = "start"
  /\ IF build_order_ids = <<>>
     THEN BoneStop("panic") /\ UNCHANGED call_stack
     ELSE CallInterpretBone(build_order_ids[1])
  /\ UNCHANGED <<cinf_bones, build_order_ids, bone_names, skeleton>>
  /\ UNCHANGED notBone

\* one iteration of `for linked_bone_id in bone.linked_bones`, up to the
\* recursive call if there is one
VisitLinkedBone ==
  /\ bone_pc = "walk"
  /\ LET frame == call_stack[Len(call_stack)]
         linked_bones == cinf_bones[frame.bone_id].linked_bones
     IN /\ frame.linked <= Len(linked_bones)
        /\ IF IsChild(linked_bones[frame.linked], frame.bone_id)
           THEN CallInterpretBone(linked_bones[frame.linked])
           ELSE /\ call_stack' =
                     [call_stack EXCEPT ![Len(call_stack)].linked = @ + 1]
                /\ UNCHANGED <<bone_pc, bone_result>>
  /\ UNCHANGED <<cinf_bones, build_order_ids, bone_names, skeleton>>
  /\ UNCHANGED notBone

\* the loop is over: CanonicalMeshBone { id, children, .. } goes to the caller,
\* which pushes it to its children and moves on, or to from_ancs
ReturnBone ==
  /\ bone_pc = "walk"
  /\ LET depth == Len(call_stack)
         frame == call_stack[depth]
         bone == [id |-> frame.bone_id, children |-> frame.children]
     IN /\ frame.linked > Len(cinf_bones[frame.bone_id].linked_bones)
        /\ IF depth = 1
           THEN /\ call_stack' = <<>>
                /\ skeleton' = <<bone>>
                /\ BoneStop("ok")
           ELSE /\ call_stack' =
                     [SubSeq(call_stack, 1, depth - 1) EXCEPT
                        ![depth - 1].children = Append(@, bone),
                        ![depth - 1].linked = @ + 1]
                /\ UNCHANGED <<skeleton, bone_pc, bone_result>>
  /\ UNCHANGED <<cinf_bones, build_order_ids, bone_names>>
  /\ UNCHANGED notBone

BoneNext == InterpretRoot \/ VisitLinkedBone \/ ReturnBone

SpecBone == BoneInit /\ [][BoneNext]_vars

\* the declared root bone id has no bone in the table
RootAbsent == build_order_ids # <<>> /\ FindBone(build_order_ids[1]) = None

\* C21: building the joint tree fails with an error result whenever the
\* declared root bone id (the first build-order id) does not occur in the bone
\* table, and no partial tree is produced.
C21_AbsentRootIsError ==
  (RootAbsent /\ bone_pc = "done") => (bone_result = "err" /\ skeleton = <<>>)

\* the ids of the frames on the call stack
OnStack == {call_stack[k].bone_id : k \in 1..Len(call_stack)}

\* C30: flattening terminates for every decoded bone table, also when a bone
\* names itself as parent and linked bone or two bones name each other as
\* parent: no bone is entered while it is being flattened, so no bone id is
\* its own ancestor and the recursion is no deeper than the table is long.
C30_NoBoneItsOwnAncestor ==
  /\ Cardinality(OnStack) = Len(call_stack)
  /\ bone_result # "overflow"


(***************************************************************************)
(* main.rs: process_all_resources, the scan that fetches and decodes every *)
(* resource of every .pak file of the disc.                                *)
(***************************************************************************)

\* .pak files on the disc and resources per file
MaxArchives == 2
MaxArchiveResources == 2

\* what a resource is like, by the place of the code that meets it:
\*   "good"               fetched and decoded
\*   "truncated"          a read runs past the end: read_u32()? in the decoder
\*   "unsupported_format" txtr::dump: bail! on the pixel format
\*   "bad_magic"          Cmdl::read_from: assert_eq!(magic, 0xdeadbabe)
\*   "corrupt_stream"     ResourceTableEntry::data: decompress(..)? is an Err
\*   "unfinished_stream"  ResourceTableEntry::data: assert_eq!(.., StreamEnd)
Malformed ==
  {"truncated", "unsupported_format", "bad_magic", "corrupt_stream", "unfinished_stream"}

ResourceKinds == {"good"} \cup Malformed

\* pak.data(entry.file_id())?.unwrap()
FetchOutcome(kind) ==
  CASE kind = "corrupt_stream" -> "err"
    [] kind = "unfinished_stream" -> "panic"
    [] OTHER -> "ok"

\* Ancs::read_from / Cmdl::read_from / txtr::dump on the fetched bytes
DecodeOutcome(kind) ==
  CASE kind \in {"truncated", "unsupported_format"} -> "err"
    [] kind = "bad_magic" -> "panic"
    [] OTHER -> "ok"

ScanInit ==
  /\ IdleButScan
  /\ scan_pc = "files"
  /\ archive_count \in 1..MaxArchives
  /\ archive_sizes = <<>>
  /\ scan_log = <<>>
  /\ scan_result = "none"

ScanStop(how) ==
  /\ scan_pc' = "done"
  /\ scan_result' = how

\* the resources of the archive being scanned that were attempted
Attempted == {k \in 1..Len(scan_log) : scan_log[k].archive = Len(archive_sizes)}

\* the next .pak file of disc.iter_files(): Pak::new(file.data())?, which
\* reads the tables, stops on a short read and asserts on the version tag
OpenArchive ==
  /\ scan_pc = "files"
  /\ Len(archive_sizes) < archive_count
  /\ \/ /\ \E how \in Failed : ScanStop(how)
        /\ archive_sizes' = Append(archive_sizes, None)
     \/ /\ \E n \in 1..MaxArchiveResources : archive_sizes' = Append(archive_sizes, n)
        /\ scan_pc' = "resources"
        /\ UNCHANGED scan_result
  /\ UNCHANGED <<archive_count, scan_log>>
  /\ UNCHANGED notScan

\* one iteration of `for entry in pak.iter_resources()`
ScanResource ==
  /\ scan_pc = "resources"
  /\ Cardinality(Attempted) < archive_sizes[Len(archive_sizes)]
  /\ \E kind \in ResourceKinds :
       LET data_read == FetchOutcome(kind)
           read == DecodeOutcome(kind)
           entry == [archive |-> Len(archive_sizes),
                     resource |-> Cardinality(Attempted) + 1,
                     kind |-> kind,
                     reported |-> data_read = "ok" /\ read = "err"]   \* println!("Error in ..")
       IN /\ scan_log' = Append(scan_log, entry)
          /\ IF data_read # "ok" THEN ScanStop(data_read)             \* `?` or assert_eq!
             ELSE IF read = "panic" THEN ScanStop("panic")     \* assert_eq! in the decoder
             ELSE UNCHANGED <<scan_pc, scan_result>>
  /\ UNCHANGED <<archive_count, archive_sizes>>
  /\ UNCHANGED notScan

\* pak.iter_resources() is exhausted: on to the next file
CloseArchive ==
  /\ scan_pc = "resources"
  /\ Cardinality(Attempted) = archive_sizes[Len(archive_sizes)]
  /\ scan_pc' = "files"
  /\ UNCHANGED <<archive_count, archive_sizes, scan_log, scan_result>>
  /\ UNCHANGED notScan

\* disc.iter_files() is exhausted: Ok(())
FinishScan ==
  /\ scan_pc = "files"
  /\ Len(archive_sizes) = archive_count
  /\ ScanStop("ok")
  /\ UNCHANGED <<archive_count, archive_sizes, scan_log>>
  /\ UNCHANGED notScan

ScanNext == OpenArchive \/ ScanResource \/ CloseArchive \/ FinishScan

SpecScan == ScanInit /\ [][ScanNext]_vars

\* the scan stopped on resource k of the log
StoppedOn(k) ==
  /\ scan_pc = "done"
  /\ scan_result # "ok"
  /\ k = Len(scan_log)
  /\ archive_sizes[Len(archive_sizes)] # None

\* C22: in the bulk scan a malformed resource (bad magic or version,
\* truncated data, corrupt compressed stream, unsupported pixel format) is
\* reported for that resource and the scan goes on: a failure on resource i
\* never prevents the attempt on a later resource of the same or of a later
\* archive.
C22_ScanGoesOn ==
  \A k \in 1..Len(scan_log) :
    scan_log[k].kind \in Malformed => (scan_log[k].reported /\ ~StoppedOn(k))


(***************************************************************************)
(* bytes.rs: read_fixed_capacity_ascii_c_string, applied to one reader.    *)
(***************************************************************************)

\* bytes in the reader, and the capacity asked for
MaxReaderLen == 4
MaxCapacity == 4

\* a terminator, two ASCII letters' worth of text and a byte that is not ASCII
CStrBytes == {0, 65, 128}

CStrInputs == UNION {[1..n -> CStrBytes] : n \in 0..MaxReaderLen}

\* a scan that looks at every byte of the field
RECURSIVE ScanWholeField(_)
ScanWholeField(field) ==
  IF field = <<>> THEN [status |-> "ok", text |-> <<>>]
  ELSE LET rest == ScanWholeField(Tail(field))
       IN IF Head(field) >= 128 \/ rest.status = "err"
          THEN [status |-> "err", text |-> <<>>]
          ELSE IF Head(field) = 0 THEN [status |-> "ok", text |-> <<>>]
          ELSE [status |-> "ok", text |-> <<Head(field)>> \o rest.text]

\* data.into_iter().scan((), ..).collect(): the scan ends at the first 0, an
\* ASCII byte is a character, any other byte an Err, and collect() stops at
\* the first Err it is given
RECURSIVE ScanChars(_)
ScanChars(field) ==
  IF field = <<>> THEN [status |-> "ok", text |-> <<>>]
  ELSE IF Head(field) = 0 THEN [status |-> "ok", text |-> <<>>]
  ELSE IF Head(field) >= 128 THEN [status |-> "err", text |-> <<>>]
  ELSE LET rest == ScanChars(Tail(field))
       IN IF rest.status = "err" THEN rest
          ELSE [status |-> "ok", text |-> <<Head(field)>> \o rest.text]

CStrInit ==
  /\ IdleButCStr
  /\ cstr_pc = "call"
  /\ cstr_input \in CStrInputs
  /\ cstr_capacity \in 0..MaxCapacity
  /\ cstr_cursor = 0
  /\ cstr_result = <<>>

\* the call: `while data.len() < len { data.push(self.read_u8()?) }`, where
\* read_u8 fails at the end of the reader, then the scan
ReadFixedCapacityAsciiCString ==
  /\ cstr_pc = "call"
  /\ cstr_pc' = "returned"
  /\ cstr_cursor' = Min(cstr_capacity, Len(cstr_input))
  /\ cstr_result' =
       IF Len(cstr_input) < cstr_capacity
       THEN [status |-> "err", text |-> <<>>]
       ELSE ScanChars(SubSeq(cstr_input, 1, cstr_capacity))
  /\ UNCHANGED <<cstr_input, cstr_capacity>>
  /\ UNCHANGED notCStr

CStrNext == ReadFixedCapacityAsciiCString

SpecCStr == CStrInit /\ [][CStrNext]_vars

\* the position of the first zero byte among the first n bytes, n + 1 if none
FirstZero(n) ==
  LET zeros == {k \in 1..n : cstr_input[k] = 0}
  IN IF zeros = {} THEN n + 1 ELSE CHOOSE k \in zeros : \A j \in zeros : k <= j

\* C25: with n bytes available the call advances the cursor by exactly n
\* bytes, whether or not a zero byte is among them; its result is the bytes
\* before the first zero byte (all n when there is none); it fails exactly
\* when a byte >= 0x80 comes before the first zero byte; and the bytes after
\* the first zero byte do not affect the outcome.
C25_FixedCapacityString ==
  (cstr_pc = "returned" /\ cstr_capacity <= Len(cstr_input)) =>
    LET z == FirstZero(cstr_capacity)
    IN /\ cstr_cursor = cstr_capacity
       /\ (cstr_result.status = "err") <=> (\E k \in 1..(z - 1) : cstr_input[k] >= 128)
       /\ cstr_result.status = "ok" => cstr_result.text = SubSeq(cstr_input, 1, z - 1)

\* a field of four bytes: a letter, the terminator, a byte that is not ASCII
\* and a letter
C25_Witness ==
  /\ cstr_pc = "returned"
  /\ cstr_input = <<65, 0, 128, 65>>
  /\ cstr_capacity = 4
  /\ cstr_cursor = 4
  /\ cstr_result = [status |-> "ok", text |-> <<65>>]


(***************************************************************************)
(* The checks the record decoders make on a leading magic, tag or version: *)
(* Pak::new, Cmdl::read_from, and Ancs, CharacterSet, Character and        *)
(* AnimationSet in ancs.rs, each applied to one value read.                *)
(***************************************************************************)

\* the small values a version field is drawn from
MaxTagValue == 11

\* a u32 or u16 as <<high 16 bits, low 16 bits>>
PakVersion == <<3, 5>>                \* 0x00030005
CmdlMagic == <<57005, 47806>>         \* 0xdeadbabe

TagDecoders ==
  {"Pak", "CmdlMagic", "CmdlVersion", "Ancs", "CharacterSet", "Character", "AnimationSet"}

TagValues(decoder) ==
  {<<0, k>> : k \in 0..MaxTagValue}
    \cup (IF decoder \in {"Pak", "CmdlMagic", "CmdlVersion"}
          THEN {PakVersion, <<3, 4>>, CmdlMagic, <<57005, 47807>>}
          ELSE {})

\* what the decoder does with the value it has read: goes on ("ok"), returns
\* an Err ("err", bail!) or aborts ("panic", assert_eq!)
CheckTag(decoder, value) ==
  CASE decoder = "Pak" ->                                  \* pak.rs:15
         IF value = PakVersion THEN "ok" ELSE "panic"
    [] decoder = "CmdlMagic" ->                            \* cmdl.rs:30
         IF value = CmdlMagic THEN "ok" ELSE "panic"
    [] decoder = "CmdlVersion" ->                          \* cmdl.rs:32
         IF value = <<0, 2>> THEN "ok" ELSE "panic"
    [] decoder = "Ancs" ->                                 \* ancs.rs:20
         IF value = <<0, 1>> THEN "ok" ELSE "panic"
    [] decoder = "CharacterSet" ->                         \* ancs.rs:40
         IF value = <<0, 1>> THEN "ok" ELSE "panic"
    [] decoder = "Character" ->                            \* ancs.rs:75-77
         IF value[2] > 6 THEN "err" ELSE "ok"
    [] decoder = "AnimationSet" ->                         \* ancs.rs:473-475
         IF value[2] < 2 \/ value[2] > 4 THEN "err" ELSE "ok"

TagInit ==
  /\ IdleButTag
  /\ tag_pc = "read"
  /\ tag_decoder \in TagDecoders
  /\ tag_value \in TagValues(tag_decoder)
  /\ tag_result = "none"

ApplyCheckTag ==
  /\ tag_pc = "read"
  /\ tag_pc' = "checked"
  /\ tag_result' = CheckTag(tag_decoder, tag_value)
  /\ UNCHANGED <<tag_decoder, tag_value>>
  /\ UNCHANGED notTag

TagNext == ApplyCheckTag

SpecTag == TagInit /\ [][TagNext]_vars

\* the values each decoder takes: the one known archive version, the model
\* magic, model version 2, top-level and character-set version 1, character
\* versions up to 6, animation-set versions 2..4
Expected(decoder, value) ==
  CASE decoder = "Pak" -> value = PakVersion
    [] decoder = "CmdlMagic" -> value = CmdlMagic
    [] decoder = "CmdlVersion" -> value = <<0, 2>>
    [] decoder \in {"Ancs", "CharacterSet"} -> value = <<0, 1>>
    [] decoder = "Character" -> value[1] = 0 /\ value[2] <= 6
    [] decoder = "AnimationSet" -> value[1] = 0 /\ value[2] \in 2..4

\* C24: every record decoder that checks a leading magic, tag or version
\* reports an unexpected value as an error result of that decode call.
C24_UnexpectedIsError ==
  tag_pc = "checked" =>
    /\ Expected(tag_decoder, tag_value) => tag_result = "ok"
    /\ ~Expected(tag_decoder, tag_value) => tag_result = "err"


(***************************************************************************)
(* pak.rs: Pak::new, reading the name table and the resource table of an   *)
(* archive of data_len bytes.  The reader r is kept as the number of bytes *)
(* it has left; the values it yields are drawn as they are read.           *)
(***************************************************************************)

\* bytes of the archive, entries of its tables, bytes of a name
MaxPakLen == 72
MaxNames == 1
MaxNameLen == 2
MaxEntries == 2

PakLengths == {n \in 0..MaxPakLen : n % 2 = 0}

\* offsets and sizes a resource entry may declare
EntryOffsets == {0, 40, 64}
EntrySizes == {0, 20, 64}

PakNewInit ==
  /\ IdleButPakNew
  /\ new_pc = "header"
  /\ data_len \in PakLengths
  /\ remaining = data_len
  /\ name_count = 0
  /\ names_read = 0
  /\ resource_count = 0
  /\ new_table = <<>>
  /\ new_result = "none"

\* Pak::new stops: at "short" because the input has fewer bytes than a read,
\* a name or a resource range needs, at "done" for any other reason
PakNewStop(at, how) ==
  /\ new_pc' = at
  /\ new_result' = how

\* pak.rs:14-19: version, reserved and name_count
ReadPakHeader ==
  /\ new_pc = "header"
  /\ \E version \in {PakVersion, <<3, 4>>}, reserved \in {0, 1} :
       IF remaining < 4 THEN PakNewStop("short", "err") /\ UNCHANGED <<remaining, name_count>>
       ELSE IF CheckTag("Pak", version) # "ok"
       THEN PakNewStop("done", CheckTag("Pak", version)) /\ UNCHANGED <<remaining, name_count>>
       ELSE IF remaining < 8 THEN PakNewStop("short", "err") /\ UNCHANGED <<remaining, name_count>>
       ELSE IF reserved # 0
       THEN PakNewStop("done", "panic") /\ UNCHANGED <<remaining, name_count>>
       ELSE IF remaining < 12 THEN PakNewStop("short", "err") /\ UNCHANGED <<remaining, name_count>>
       ELSE /\ name_count' \in 0..MaxNames
            /\ remaining' = remaining - 12
            /\ new_pc' = "names"
            /\ UNCHANGED new_result
  /\ UNCHANGED <<data_len, names_read, resource_count, new_table>>
  /\ UNCHANGED notPakNew

\* pak.rs:21-32: one name entry: fourcc, file_id, name_len, then the name as
\* the slice &r[..name_len]
ReadNameEntry ==
  /\ new_pc = "names"
  /\ names_read < name_count
  /\ \E name_len \in 0..MaxNameLen, text \in {"ascii", "not_utf8"} :
       IF remaining < 12
       THEN PakNewStop("short", "err") /\ UNCHANGED <<remaining, names_read>>
       ELSE IF name_len > remaining - 12
       THEN PakNewStop("short", "panic") /\ UNCHANGED <<remaining, names_read>>  \* slice index
       ELSE IF text = "not_utf8" /\ name_len > 0
       THEN PakNewStop("done", "err") /\ UNCHANGED <<remaining, names_read>>     \* from_utf8(..)?
       ELSE /\ remaining' = remaining - 12 - name_len
            /\ names_read' = names_read + 1
            /\ UNCHANGED <<new_pc, new_result>>
  /\ UNCHANGED <<data_len, name_count, resource_count, new_table>>
  /\ UNCHANGED notPakNew

\* pak.rs:34: resource_count
ReadResourceCount ==
  /\ new_pc = "names"
  /\ names_read = name_count
  /\ IF remaining < 4
     THEN PakNewStop("short", "err") /\ UNCHANGED <<remaining, resource_count>>
     ELSE /\ resource_count' \in 0..MaxEntries
          /\ remaining' = remaining - 4
          /\ new_pc' = "resources"
          /\ UNCHANGED new_result
  /\ UNCHANGED <<data_len, name_count, names_read, new_table>>
  /\ UNCHANGED notPakNew

\* pak.rs:36-48: one resource entry of five words, its data being the slice
\* &data[offset..offset + size] of the whole archive
ReadResourceEntry ==
  /\ new_pc = "resources"
  /\ Len(new_table) < resource_count
  /\ \E offset \in EntryOffsets, size \in EntrySizes :
       IF remaining < 20
       THEN PakNewStop("short", "err") /\ UNCHANGED <<remaining, new_table>>
       ELSE IF offset + size > data_len
       THEN PakNewStop("short", "panic") /\ UNCHANGED <<remaining, new_table>>   \* slice index
       ELSE /\ remaining' = remaining - 20
            /\ new_table' = Append(new_table, [offset |-> offset, size |-> size])
            /\ UNCHANGED <<new_pc, new_result>>
  /\ UNCHANGED <<data_len, name_count, names_read, resource_count>>
  /\ UNCHANGED notPakNew

\* pak.rs:50-53: Ok(Self { name_table, resource_table })
ReturnPak ==
  /\ new_pc = "resources"
  /\ Len(new_table) = resource_count
  /\ PakNewStop("done", "ok")
  /\ UNCHANGED <<data_len, remaining, name_count, names_read, resource_count, new_table>>
  /\ UNCHANGED notPakNew

PakNewNext ==
  ReadPakHeader \/ ReadNameEntry \/ ReadResourceCount \/ ReadResourceEntry \/ ReturnPak

SpecPakNew == PakNewInit /\ [][PakNewNext]_vars

\* C23: Pak::new applied to an input too short for what its tables declare (a
\* name longer than the remaining bytes, a table count larger than the bytes
\* present, a resource range outside the container) returns an error value;
\* it never aborts and never returns a container that refers to bytes outside
\* the input.
C23_ShortInputIsError ==
  /\ new_pc = "short" => new_result = "err"
  /\ new_result = "ok" =>
       \A k \in 1..Len(new_table) : new_table[k].offset + new_table[k].size <= data_len


(***************************************************************************)
(* ancs.rs: Character::read_from with ParticleResourceData.  char_fields   *)
(* lists, in order, the fields the decoder has read from the resource; the *)
(* contents of the lists are reduced to their lengths.                     *)
(***************************************************************************)

\* version words a character record may carry, and items of a list
MaxCharacterVersion == 11
MaxListLen == 1

\* the two frozen-model ids as the resource may hold them
FrozenIds == {0, 7}

\* a threshold that reads the frozen-model ids together with the animation ids
FrozenFromVersionFive(version) == version >= 5

\* the version thresholds of the optional groups
HasAabbsAndEffects(version) == version >= 2       \* ancs.rs:100
HasFrozenModel(version) == version >= 4           \* ancs.rs:114
HasAnimationIds(version) == version >= 5          \* ancs.rs:120
HasParticleExtra(version) == version >= 6         \* ancs.rs:353
IsFutureVersion(version) == version >= 10         \* ancs.rs:94, 127, 363

CharInit ==
  /\ IdleButChar
  /\ char_pc = "head"
  /\ char_version = 0
  /\ char_fields = <<>>
  /\ character = <<>>
  /\ char_result = "none"

\* the decoder stops: at "future" on one of the panic!() of the branches for
\* version >= 10, at "done" otherwise
CharStop(at, how) ==
  /\ char_pc' = at
  /\ char_result' = how

\* ancs.rs:73-87: id, version (checked), name, the three ids and the
\* animation names
ReadCharacterHead ==
  /\ char_pc = "head"
  /\ \/ /\ CharStop("done", "err")                       \* the resource ends early
        /\ UNCHANGED <<char_version, char_fields>>
     \/ \E version \in 0..MaxCharacterVersion :
          /\ char_version' = version
          /\ IF CheckTag("Character", <<0, version>>) # "ok"
             THEN /\ CharStop("done", CheckTag("Character", <<0, version>>))
                  /\ char_fields' = <<"id", "version">>
             ELSE /\ char_fields' = <<"id", "version", "name", "model_id", "skin_id",
                                      "skeleton_id", "animation_names">>
                  /\ char_pc' = "pas"
                  /\ UNCHANGED char_result
  /\ UNCHANGED character
  /\ UNCHANGED notChar

\* ancs.rs:89, 179-193: PasDatabase, which asserts on its fourcc
ReadPasDatabase ==
  /\ char_pc = "pas"
  /\ \/ /\ \E how \in Failed : CharStop("done", how)
        /\ UNCHANGED char_fields
     \/ /\ char_fields' = Append(char_fields, "pas_database")
        /\ char_pc' = "particles"
        /\ UNCHANGED char_result
  /\ UNCHANGED <<char_version, character>>
  /\ UNCHANGED notChar

\* ancs.rs:90-91, 337-372: ParticleResourceData::read_from_with_context
ReadParticleResourceData ==
  /\ char_pc = "particles"
  /\ \/ /\ CharStop("done", "err")
        /\ UNCHANGED char_fields
     \/ /\ char_fields' =
             char_fields \o <<"generic_particle_ids", "swoosh_particle_ids">>
               \o (IF HasParticleExtra(char_version) THEN <<"particle_extra_word">> ELSE <<>>)
               \o <<"electric_particle_ids">>
        /\ IF IsFutureVersion(char_version)
           THEN CharStop("future", "panic")
           ELSE char_pc' = "tail" /\ UNCHANGED char_result
  /\ UNCHANGED <<char_version, character>>
  /\ UNCHANGED notChar

\* ancs.rs:93-147: the word after the particle data, the optional groups and
\* the record
ReadCharacterTail ==
  /\ char_pc = "tail"
  /\ \/ /\ CharStop("done", "err")
        /\ UNCHANGED <<char_fields, character>>
     \/ \E aabbs \in 0..MaxListLen, effects \in 0..MaxListLen, ids \in 0..MaxListLen,
           model \in FrozenIds, skin_of_model \in FrozenIds :
          /\ char_fields' =
               char_fields \o <<"word">>
                 \o (IF IsFutureVersion(char_version) THEN <<"future_word">> ELSE <<>>)
                 \o (IF HasAabbsAndEffects(char_version)
                     THEN <<"animation_aabbs", "effects">> ELSE <<>>)
                 \o (IF HasFrozenModel(char_version)
                     THEN <<"frozen_model_id", "frozen_skin_id">> ELSE <<>>)
                 \o (IF HasAnimationIds(char_version) THEN <<"animation_ids">> ELSE <<>>)
          /\ IF IsFutureVersion(char_version)
             THEN CharStop("future", "panic") /\ UNCHANGED character
             ELSE /\ CharStop("done", "ok")
                  /\ character' =
                       [version |-> char_version,
                        animation_aabbs |-> IF HasAabbsAndEffects(char_version) THEN aabbs ELSE 0,
                        effects |-> IF HasAabbsAndEffects(char_version) THEN effects ELSE 0,
                        frozen_model_id |-> IF HasFrozenModel(char_version) THEN model ELSE 0,
                        frozen_skin_id |->
                          IF HasFrozenModel(char_version) THEN skin_of_model ELSE 0,
                        animation_ids |-> IF HasAnimationIds(char_version) THEN ids ELSE 0]
  /\ UNCHANGED char_version
  /\ UNCHANGED notChar

CharNext ==
  ReadCharacterHead \/ ReadPasDatabase \/ ReadParticleResourceData \/ ReadCharacterTail

SpecChar == CharInit /\ [][CharNext]_vars

\* the fields read so far
FieldsRead == {char_fields[k] : k \in 1..Len(char_fields)}

\* C26: in a character record of version v (0..6) the optional groups are
\* read exactly when v reaches their threshold, and otherwise consume nothing
\* and take their defaults: the bounding boxes and effects iff v >= 2, the two
\* frozen-model ids iff v >= 4, the animation ids iff v >= 5, the extra word of
\* the particle data iff v >= 6; the branches for v >= 10, the two aborts
\* among them, are never reached.
C26_VersionGroups ==
  /\ char_pc # "future"
  /\ "future_word" \notin FieldsRead
  /\ char_pc \in {"tail", "done"} /\ "electric_particle_ids" \in FieldsRead =>
       ("particle_extra_word" \in FieldsRead <=> char_version >= 6)
  /\ char_result = "ok" =>
       /\ char_version \in 0..6
       /\ {"animation_aabbs", "effects"} \subseteq FieldsRead <=> char_version >= 2
       /\ {"animation_aabbs", "effects"} \cap FieldsRead # {} <=> char_version >= 2
       /\ {"frozen_model_id", "frozen_skin_id"} \subseteq FieldsRead <=> char_version >= 4
       /\ {"frozen_model_id", "frozen_skin_id"} \cap FieldsRead # {} <=> char_version >= 4
       /\ "animation_ids" \in FieldsRead <=> char_version >= 5
       /\ char_version < 2 => character.animation_aabbs = 0 /\ character.effects = 0
       /\ char_version < 4 =>
            character.frozen_model_id = 0 /\ character.frozen_skin_id = 0
       /\ char_version < 5 => character.animation_ids = 0

\* a record of version 4: frozen-model ids read, no animation ids, no extra
\* particle word
C26_Witness ==
  /\ char_result = "ok"
  /\ char_version = 4
  /\ character.frozen_model_id = 7
  /\ character.animation_aabbs = 1
  /\ character.animation_ids = 0
  /\ char_fields = <<"id", "version", "name", "model_id", "skin_id", "skeleton_id",
                     "animation_names", "pas_database", "generic_particle_ids",
                     "swoosh_particle_ids", "electric_particle_ids", "word",
                     "animation_aabbs", "effects", "frozen_model_id", "frozen_skin_id">>


(***************************************************************************)
(* cmdl.rs: the byte layout of a model.  lay_pos is the reader's position  *)
(* in a resource of lay_len bytes.  A section size is a u32 written as     *)
(* <<blocks, rest>>, that is 32 * blocks + rest with rest in 0..31, so     *)
(* that sizes next to 2^32 can be told apart; lay_build is the build       *)
(* profile, which decides what a u32 addition that overflows does.         *)
(***************************************************************************)

MaxSectionCount == 5
MaxStreamBlocks == 5

\* the largest block count of a u32: 2^27 - 1
TopBlock == 134217727

Builds == {"debug", "release"}
StreamLengths == {32 * b : b \in 0..MaxStreamBlocks}
SectionSizes == {0, 2, 3, TopBlock} \X {0, 31}
ExtraDataSizes == {0, 16, 17}

Bytes(size) == 32 * size[1] + size[2]
IsSmall(size) == size[1] < TopBlock

\* cmdl.rs:49, 318: the bytes read so far, computed in usize
CmdlHeaderSize(declared) == 44 + 4 * declared
SurfaceHeaderSize(extra_data_size) == 48 + extra_data_size

\* cmdl.rs:50-54, 319-323: remainder = header_size & 31, then 32 - remainder
\* bytes are read when remainder > 0
PadLength(header_size) ==
  LET remainder == header_size % 32
  IN IF remainder > 0 THEN 32 - remainder ELSE 0

\* cmdl.rs:58: size + 31 in u32
AddOverflows(size) == size[1] = TopBlock /\ size[2] > 0

\* cmdl.rs:58: (size + 31) & !31, the sum wrapping to size[2] - 1 < 32 when
\* it overflows
PaddedSize(size) ==
  IF AddOverflows(size) THEN <<0, 0>>
  ELSE <<size[1] + (IF size[2] > 0 THEN 1 ELSE 0), 0>>

LayoutInit ==
  /\ IdleButLayout
  /\ lay_pc = "header"
  /\ lay_build \in Builds
  /\ lay_len \in StreamLengths
  /\ lay_pos = 0
  /\ lay_count = 0
  /\ lay_sections = <<>>
  /\ lay_surface = <<>>
  /\ lay_result = "none"

LayoutStop(how) ==
  /\ lay_pc' = "done"
  /\ lay_result' = how

\* cmdl.rs:29-54: the fixed header, the table of section sizes and the padding
ReadSectionSizes ==
  /\ lay_pc = "header"
  /\ \E declared \in 0..MaxSectionCount :
       LET header_size == CmdlHeaderSize(declared)
           padded == header_size + PadLength(header_size)
       IN IF padded > lay_len
          THEN /\ LayoutStop("err")
               /\ UNCHANGED <<lay_pos, lay_count>>
          ELSE /\ lay_pos' = padded
               /\ lay_count' = declared
               /\ lay_pc' = "sections"
               /\ UNCHANGED lay_result
  /\ UNCHANGED <<lay_build, lay_len, lay_sections, lay_surface>>
  /\ UNCHANGED notLayout

\* cmdl.rs:57-63: one iteration of the section loop
ReadSection ==
  /\ lay_pc = "sections"
  /\ Len(lay_sections) < lay_count
  /\ \E size \in SectionSizes :
       LET padded_size == PaddedSize(size)
       IN IF AddOverflows(size) /\ lay_build = "debug"
          THEN /\ LayoutStop("panic")
               /\ UNCHANGED <<lay_pos, lay_sections>>
          ELSE IF ~IsSmall(padded_size) \/ lay_pos + Bytes(padded_size) > lay_len
          THEN /\ LayoutStop("err")                    \* read_exact
               /\ UNCHANGED <<lay_pos, lay_sections>>
          ELSE /\ lay_sections' = Append(lay_sections,
                    [size |-> size, start |-> lay_pos, occupied |-> Bytes(padded_size),
                     \* data.resize(size, 0): truncates, or fills with zeros
                     from_stream |-> IF IsSmall(size) THEN Bytes(size) ELSE Bytes(padded_size),
                     zero_filled |-> ~IsSmall(size)])
               /\ lay_pos' = lay_pos + Bytes(padded_size)
               /\ UNCHANGED <<lay_pc, lay_result>>
  /\ UNCHANGED <<lay_build, lay_len, lay_count, lay_surface>>
  /\ UNCHANGED notLayout

\* cmdl.rs:92-96, 296-326: Surface::read_from over the kept bytes of a section
ReadSurface ==
  /\ lay_pc = "sections"
  /\ Len(lay_sections) = lay_count
  /\ \E k \in 1..Len(lay_sections), extra_data_size \in ExtraDataSizes :
       LET section == lay_sections[k]
           header_size == SurfaceHeaderSize(extra_data_size)
           topology == header_size + PadLength(header_size)
       IN /\ IsSmall(section.size)
          /\ IF topology > Bytes(section.size)
             THEN /\ LayoutStop("err")
                  /\ UNCHANGED lay_surface
             ELSE /\ lay_surface' = [section |-> k, extra_data_size |-> extra_data_size,
                                      topology_start |-> topology,
                                      topology_length |-> Bytes(section.size) - topology]
                  /\ LayoutStop("ok")
  /\ UNCHANGED <<lay_build, lay_len, lay_pos, lay_count, lay_sections>>
  /\ UNCHANGED notLayout

\* cmdl.rs:98: a model that has no surface to read
ReturnWithoutSurface ==
  /\ lay_pc = "sections"
  /\ Len(lay_sections) = lay_count
  /\ LayoutStop("ok")
  /\ UNCHANGED <<lay_build, lay_len, lay_pos, lay_count, lay_sections, lay_surface>>
  /\ UNCHANGED notLayout

LayoutNext == ReadSectionSizes \/ ReadSection \/ ReadSurface \/ ReturnWithoutSurface

SpecLayout == LayoutInit /\ [][LayoutNext]_vars

\* the next multiple of 32 at or above n
NextMultiple(n) == 32 * ((n + 31) \div 32)

\* the same for a size written <<blocks, rest>>, in 32-byte blocks
NextMultipleBlocks(size) == size[1] + (IF size[2] > 0 THEN 1 ELSE 0)

\* C27: every section starts on a 32-byte boundary: the header of
\* 0x2c + 4 * section_count bytes is followed by exactly the bytes up to the
\* next multiple of 32, each section of declared size s occupies the next
\* multiple of 32 at or above s of which the first s bytes are kept, and in a
\* surface section the topology stream starts at the next multiple of 32 at or
\* above 0x30 + extra_data_size.
C27_SectionsAligned ==
  /\ lay_pc = "sections" =>
       /\ Len(lay_sections) = 0 => lay_pos = NextMultiple(44 + 4 * lay_count)
       /\ lay_pos % 32 = 0
  /\ \A k \in 1..Len(lay_sections) :
       LET section == lay_sections[k]
       IN /\ section.start % 32 = 0
          /\ section.occupied % 32 = 0
          /\ section.occupied \div 32 = NextMultipleBlocks(section.size)
          /\ ~section.zero_filled
          /\ IsSmall(section.size)
          /\ section.from_stream = Bytes(section.size)
  /\ lay_surface # <<>> =>
       /\ lay_surface.topology_start = NextMultiple(48 + lay_surface.extra_data_size)
       /\ (lay_sections[lay_surface.section].start + lay_surface.topology_start) % 32 = 0

\* the same statement for the sections whose size plus 31 fits in 32 bits
AlignedBelowOverflow ==
  /\ lay_pc = "sections" =>
       /\ Len(lay_sections) = 0 => lay_pos = NextMultiple(44 + 4 * lay_count)
       /\ lay_pos % 32 = 0
  /\ \A k \in 1..Len(lay_sections) :
       LET section == lay_sections[k]
       IN /\ section.start % 32 = 0
          /\ ~AddOverflows(section.size) =>
               /\ section.occupied % 32 = 0
               /\ section.occupied \div 32 = NextMultipleBlocks(section.size)
               /\ ~section.zero_filled
               /\ IsSmall(section.size)
               /\ section.from_stream = Bytes(section.size)
  /\ lay_surface # <<>> =>
       /\ lay_surface.topology_start = NextMultiple(48 + lay_surface.extra_data_size)
       /\ (lay_sections[lay_surface.section].start + lay_surface.topology_start) % 32 = 0


(***************************************************************************)
(* txtr.rs: the bytes of the payload each pixel is decoded from, for the   *)
(* formats that address whole bytes.                                       *)
(***************************************************************************)

\* I8, IA4, IA8, C8, RGB565, RGB5A3, RGBA8
ByteAddressed == {1, 2, 3, 5, 7, 8, 9}

\* txtr.rs:117, 147, 181-182, 255, 285, 315, 345-348: the offsets the loop body
\* reads for the pixel (x, y)
ReadLocations(x, y) ==
  CASE txtr_format \in {1, 2, 5} -> {Offset8(x, y)}
    [] txtr_format \in {3, 7, 8} -> {Offset16(x, y), Offset16(x, y) + 1}
    [] txtr_format = 9 ->
         {Offset32(x, y), Offset32(x, y) + 1, Offset32(x, y) + 32, Offset32(x, y) + 33}

\* the tile of each format: width and height in pixels, size in bytes, and the
\* bytes one pixel takes (in each half of the tile for RGBA8)
TileWidth == IF txtr_format \in {1, 2, 5} THEN 8 ELSE 4
TileHeight == 4
TileBytes == IF txtr_format = 9 THEN 64 ELSE 32
BytesPerPixel == IF txtr_format \in {1, 2, 5} THEN 1 ELSE 2
TilesWide ==
  IF txtr_width % TileWidth = 0 THEN txtr_width \div TileWidth
  ELSE txtr_width \div TileWidth + 1

\* the tile of the pixel (x, y) and the pixel's place in storage
TileOf(x, y) == TilesWide * (y \div TileHeight) + (x \div TileWidth)
Location(x, y) ==
  TileBytes * TileOf(x, y) + BytesPerPixel * (TileWidth * (y % TileHeight) + (x % TileWidth))

\* the pixels of the image
Pixels == (0..(txtr_width - 1)) \X (0..(txtr_height - 1))

\* C28: for every byte-addressed format and every image size the bytes read for
\* the pixel (x, y) begin at tile_bytes * (tiles_wide * (y div tile_h) +
\* (x div tile_w)) + bytes_per_pixel * (tile_w * (y mod tile_h) + (x mod tile_w))
\* with tiles_wide the width over tile_w rounded up; they lie in the pixel's
\* own tile, two pixels never read the same byte, and an RGBA8 pixel takes alpha
\* and red at that offset of the first half of its 64-byte tile and green and
\* blue at the same offset of the second half.
C28_TileAddressing ==
  (txtr_format \in ByteAddressed /\ txtr_pc # "start") =>
    /\ \A p \in Pixels :
         LET at == Location(p[1], p[2])
             tile == TileOf(p[1], p[2])
         IN /\ ReadLocations(p[1], p[2]) =
                 {at + d : d \in 0..(BytesPerPixel - 1)}
                   \cup (IF txtr_format = 9 THEN {at + 32, at + 33} ELSE {})
            /\ ReadLocations(p[1], p[2]) \subseteq (TileBytes * tile)..(TileBytes * (tile + 1) - 1)
            /\ txtr_format = 9 => at - 64 * tile < 32
            /\ \A q \in Pixels :
                 q # p => ReadLocations(p[1], p[2]) \cap ReadLocations(q[1], q[2]) = {}
    /\ \A j \in 1..Len(decoded) : \A x \in 1..txtr_width :
         LET at == Location(x - 1, j - 1)
         IN /\ txtr_format = 9 =>
                 decoded[j][x] = <<Byte(at + 1), Byte(at + 32), Byte(at + 33), Byte(at)>>
            /\ txtr_format = 1 =>
                 decoded[j][x] = <<Byte(at), Byte(at), Byte(at), 255>>
            /\ txtr_format = 3 =>
                 decoded[j][x] = <<Byte(at), Byte(at), Byte(at), Byte(at + 1)>>

\* an RGBA8 image of 9 by 9 pixels, three tiles by three, decoded to its end
C28_Witness ==
  /\ txtr_format = 9
  /\ txtr_width = 9
  /\ txtr_height = 9
  /\ txtr_step = 7
  /\ Len(decoded) = 9
  /\ txtr_result = "ok"


(***************************************************************************)
(* disc.rs: Disc::iter_files and Disc::find_file.  file_table[i] is the    *)
(* entry of index i (the root, entry 0, is skipped by the iterator): 0 for *)
(* a file, and for a directory its end_index, the index of the first entry *)
(* after it.  The name of entry i is i, so that a path is a sequence of    *)
(* indexes.                                                                *)
(***************************************************************************)

MaxRootEntries == 5

IsDirectory(table, i) == table[i] # 0

\* the tables of a directory tree: a directory ends after it starts, within
\* the table and within the directory that holds it
FileTables(n) ==
  {t \in [1..(n - 1) -> 0..n] :
     \A i \in 1..(n - 1) :
       IsDirectory(t, i) =>
         /\ i < t[i]
         /\ \A j \in (i + 1)..(t[i] - 1) : t[j] <= t[i]}

\* the elements of a set of numbers in increasing order
Ascending(S) ==
  CHOOSE f \in [1..Cardinality(S) -> S] :
    \A a, b \in 1..Cardinality(S) : a < b => f[a] < f[b]

\* the directories whose range encloses entry i, outermost first
Enclosing(table, i) == Ascending({j \in 1..(i - 1) : IsDirectory(table, j) /\ table[j] > i})

\* the full path of entry i
FullPath(table, i) == Append(Enclosing(table, i), i)

Files(table) == {i \in DOMAIN table : ~IsDirectory(table, i)}

Last(s) == IF s = <<>> THEN None ELSE s[Len(s)]
Pop(s) == IF s = <<>> THEN s ELSE SubSeq(s, 1, Len(s) - 1)

DiscInit ==
  /\ IdleButDisc
  /\ disc_pc = "iterating"
  /\ root_entry_count \in 2..MaxRootEntries
  /\ file_table \in FileTables(root_entry_count)
  /\ disc_caller \in {"collect", "find_file"}
  /\ IF disc_caller = "find_file"
     THEN requested \in {FullPath(file_table, i) : i \in Files(file_table)} \cup {<<0>>}
     ELSE requested = <<>>
  /\ disc_index = 1
  /\ disc_path = <<>>
  /\ dir_ends = <<>>
  /\ yielded = <<>>
  /\ found_file = None

\* disc.rs:107-131: the closure applied to the next index of 1..root_entry_count,
\* and for find_file the comparison of the file it yields (disc.rs:136-141)
NextEntry ==
  /\ disc_pc = "iterating"
  /\ disc_index < root_entry_count
  /\ LET popped == Last(dir_ends) = disc_index
         path == IF popped THEN Pop(disc_path) ELSE disc_path
         ends == IF popped THEN Pop(dir_ends) ELSE dir_ends
     IN IF IsDirectory(file_table, disc_index)
        THEN /\ disc_path' = Append(path, disc_index)
             /\ dir_ends' = Append(ends, file_table[disc_index])
             /\ UNCHANGED <<yielded, found_file, disc_pc>>
        ELSE LET file_path == Append(path, disc_index)
             IN /\ disc_path' = path
                /\ dir_ends' = ends
                /\ yielded' = Append(yielded, [index |-> disc_index, path |-> file_path])
                /\ IF disc_caller = "find_file" /\ file_path = requested
                   THEN found_file' = disc_index /\ disc_pc' = "done"
                   ELSE UNCHANGED <<found_file, disc_pc>>
  /\ disc_index' = disc_index + 1
  /\ UNCHANGED <<root_entry_count, file_table, disc_caller, requested>>
  /\ UNCHANGED notDisc

\* the range 1..root_entry_count is exhausted (disc.rs:142 for find_file)
EndOfTable ==
  /\ disc_pc = "iterating"
  /\ disc_index = root_entry_count
  /\ disc_pc' = "done"
  /\ UNCHANGED <<root_entry_count, file_table, disc_caller, requested, disc_index,
                 disc_path, dir_ends, yielded, found_file>>
  /\ UNCHANGED notDisc

DiscNext == NextEntry \/ EndOfTable

SpecDisc == DiscInit /\ [][DiscNext]_vars

\* the file whose full path is p, if there is one
FileAt(p) ==
  IF \E i \in Files(file_table) : FullPath(file_table, i) = p
  THEN CHOOSE i \in Files(file_table) : FullPath(file_table, i) = p
  ELSE None

\* C29: while iter_files walks the table its directory stack holds exactly the
\* directories whose range encloses the entry, so that every file is yielded
\* with the names of its enclosing directories followed by its own, however
\* the directories nest, and find_file returns the file whose full path is the
\* requested one.
C29_StackIsEnclosingDirectories ==
  /\ disc_index > 1 =>
       LET i == disc_index - 1
       IN disc_path = IF IsDirectory(file_table, i) THEN FullPath(file_table, i)
                      ELSE Enclosing(file_table, i)
  /\ \A k \in 1..Len(yielded) : yielded[k].path = FullPath(file_table, yielded[k].index)
  /\ (disc_pc = "done" /\ disc_caller = "find_file") => found_file = FileAt(requested)

\* the same with tables in which no two directories end at the same index
DistinctEnds ==
  \A i, j \in DOMAIN file_table :
    (i # j /\ IsDirectory(file_table, i) /\ IsDirectory(file_table, j)) =>
      file_table[i] # file_table[j]

HoldsForDistinctEnds == DistinctEnds => C29_StackIsEnclosingDirectories

====
